--------------------------- MODULE StagedPipeline ---------------------------
(* The staged training pipeline (training/pipeline): a novel's quotes are    *)
(* attributed by a language model, the heroine's are joined into turns, and  *)
(* for every turn three contexts are asked for by three threads at once.     *)
(* Every answer is kept in a file of its stage by request id, and a run      *)
(* that was stopped, or failed, is resumed by starting the pipeline again on *)
(* the same directory.  The trouble is that the ids of the context requests  *)
(* number the turns, and the turns depend on attributions that may come late.*)
(*                                                                           *)
(* One chapter; quotes are numbered in text order, on a line each and one to *)
(* an attribution request.  Answers do not name ids of their own.            *)
EXTENDS Naturals, FiniteSets

CONSTANTS Quotes,       \* quotes of the chapter
          MaxRuns,      \* bound: how often the pipeline is started
          MaxFaults,    \* bound: failed and unusable answers
          MaxCrashes    \* bound: deaths of the process

ASSUME BoundsAreNat == Quotes \in Nat /\ {MaxRuns, MaxFaults, MaxCrashes} \subseteq Nat

VARIABLES joined,       \* quotes with nothing but a bridge before the next one
          file,         \* llm_responses: stage -> request id -> row
          phase,        \* what run_staged_pipeline is doing
          carryOn,      \* continue_on_failure of this run
          call,         \* stage -> its call_prompt_requests
          turns,        \* sft_turns.jsonl: id -> speech and beat
          draft,        \* sft_messages_draft.jsonl
          trainable,    \* sft_messages_trainable.jsonl
          late,         \* ghost: attributed after contexts had been asked for
          runs, faults, crashes  \* spent bounds

pipelineVars == <<joined, file, phase, carryOn, call, turns, draft, trainable, late,
          runs, faults, crashes>>

Groups == 1..Quotes
Contexts == {"system", "user", "assistant"}
Stages == {"speaker"} \cup Contexts

(* A row knows what it was asked about: the quotes of the target speech, and *)
(* those of the source text that was shown with it.  The row of a speaker    *)
(* request holds its quote if the answer says that it is hers.               *)
NoRow == [state |-> "none", about |-> {}, seen |-> {}]
Failed == [NoRow EXCEPT !.state = "failed"]
Successful(row) == row.state \in {"ok", "unusable"}
NoRows == [id \in Groups |-> NoRow]
NoCall == [pc |-> "idle", rows |-> NoRows]

PipelineInit ==
    /\ joined \in SUBSET {g \in Groups : g + 1 \in Groups}
    /\ file = [s \in Stages |-> NoRows]
    /\ phase = "idle" /\ carryOn = TRUE
    /\ call = [s \in Stages |-> NoCall]
    /\ turns = [k \in {} |-> NoRow]
    /\ draft = {} /\ trainable = {} /\ late = {}
    /\ runs = 0 /\ faults = 0 /\ crashes = 0

(*--------------------------- turns from the text --------------------------*)
Hers == {g \in Groups : file["speaker"][g].state = "ok" /\ g \in file["speaker"][g].about}

(* Two quotes of hers become one speech when nothing but a bridge is between *)
(* them; somebody else's quote in between keeps them apart.                  *)
Starts(hers) == {g \in hers : ~(g - 1 \in hers /\ g - 1 \in joined)}

(* Turns are numbered in text order.                                         *)
TurnOf(hers, g) == Cardinality({s \in Starts(hers) : s <= g})
Speech(hers, k) == {g \in hers : TurnOf(hers, g) = k}

(* A beat is the text from the end of the turn before to the end of its own. *)
Beat(hers, k) == {g \in Groups : /\ \E h \in Speech(hers, k) : g <= h
                                 /\ \A h \in hers : TurnOf(hers, h) < k => h < g}

TurnsOf(hers) == [k \in 1..Cardinality(Starts(hers)) |->
                    [speech |-> Speech(hers, k), beat |-> Beat(hers, k)]]

(*------------------------------- one LLM call -----------------------------*)
(* Every turn with a speech is asked about, by its number.                   *)
Asks(list) == {k \in DOMAIN list : list[k].speech # {}}
Asked(s) == IF s = "speaker" THEN Groups ELSE Asks(turns)

(* What a request shows the model.                                           *)
Request(s, id) == IF s = "speaker" THEN [speech |-> {id}, beat |-> {id}] ELSE turns[id]

\* Mutant: a resumed call starts from nothing.
Begun_Afresh(s, ids) == [pc |-> "calling", rows |-> NoRows]

(* A call starts from the successful rows its file has for the ids it is     *)
(* asked for now.                                                            *)
Begun(s, ids) ==
    [pc |-> "calling",
     rows |-> [id \in Groups |-> IF id \in ids /\ Successful(file[s][id])
                                 THEN file[s][id] ELSE NoRow]]

(* The outcome of a request after all its attempts: the reply of the model,  *)
(* one the extraction has no use for (no content, no thinking), or nothing.  *)
Outcomes(s, id) ==
    IF s = "speaker"
    THEN {Failed} \cup {[state |-> "ok", about |-> hers, seen |-> Request(s, id).beat] : hers \in {{}, {id}}}
    ELSE {Failed} \cup {[state |-> st, about |-> Request(s, id).speech, seen |-> Request(s, id).beat] :
                          st \in IF s = "system" THEN {"ok"} ELSE {"ok", "unusable"}}

\* Mutant: no stage stops at a failure.
Continues_Always(s) == TRUE

(* Only the attribution is told to continue: the context stages keep the     *)
(* default of call_prompt_requests.                                          *)
Continues(s) == s = "speaker" /\ carryOn

\* Mutant: answers are filed in the order they come, not by request.
Slot_InOrder(s, id) ==
    CHOOSE i \in Asked(s) : /\ call[s].rows[i] = NoRow
                            /\ \A j \in Asked(s) : call[s].rows[j] = NoRow => i <= j
Slot(s, id) == id

(* as_completed returns one finished request; the file is replaced.  At a    *)
(* failure the call raises, and what other requests return is dropped.       *)
Answer(s, id) ==
    /\ call[s].pc = "calling" /\ id \in Asked(s) /\ call[s].rows[id] = NoRow
    /\ \E row \in Outcomes(s, id) :
        LET rows == [call[s].rows EXCEPT ![Slot(s, id)] = row]
        IN  /\ faults' = faults + (IF row.state = "ok" THEN 0 ELSE 1)
            /\ faults' <= MaxFaults
            /\ file' = [file EXCEPT ![s] = rows]
            /\ call' = [call EXCEPT ![s] =
                  [pc |-> IF row.state = "failed" /\ ~Continues(s) THEN "raised" ELSE "calling",
                   rows |-> rows]]
    /\ UNCHANGED <<joined, phase, carryOn, turns, draft, trainable, late, runs, crashes>>

Finish(s) ==
    /\ call[s].pc = "calling" /\ \A id \in Asked(s) : call[s].rows[id] # NoRow
    /\ file' = [file EXCEPT ![s] = call[s].rows]
    /\ call' = [call EXCEPT ![s].pc = "done"]
    /\ UNCHANGED <<joined, phase, carryOn, turns, draft, trainable, late, runs, faults, crashes>>

(*---------------------------------- a run ---------------------------------*)
(* The quotes and their requests are the same at every start.                *)
StartRun ==
    /\ phase \in {"idle", "failed", "done"} /\ runs < MaxRuns
    /\ runs' = runs + 1 /\ phase' = "speaker" /\ carryOn' \in BOOLEAN
    /\ call' = [call EXCEPT !["speaker"] = Begun("speaker", Groups)]
    /\ UNCHANGED <<joined, file, turns, draft, trainable, late, faults, crashes>>

(* The turns are built anew from all attributions, and their requests with   *)
(* them; then the three context calls start, each in a thread.               *)
Anchor ==
    /\ phase = "speaker" /\ call["speaker"].pc = "done"
    /\ turns' = TurnsOf(Hers)
    /\ late' = IF \E s \in Contexts, k \in Groups : Successful(file[s][k])
               THEN late \cup (Hers \ UNION {turns[k].speech : k \in DOMAIN turns}) ELSE {}
    /\ phase' = "contexts"
    /\ call' = [s \in Stages |-> IF s \in Contexts THEN Begun(s, Asks(turns')) ELSE NoCall]
    /\ UNCHANGED <<joined, file, carryOn, draft, trainable, runs, faults, crashes>>

(* The exception of a call ends the run once every other call has ended.     *)
Fail ==
    /\ phase \in {"speaker", "contexts"}
    /\ \A s \in Stages : call[s].pc # "calling"
    /\ \E s \in Stages : call[s].pc = "raised"
    /\ phase' = "failed" /\ call' = [s \in Stages |-> NoCall]
    /\ UNCHANGED <<joined, file, carryOn, turns, draft, trainable, late, runs, faults, crashes>>

(* What the extraction makes of a turn's rows.  A turn without a system row  *)
(* of its own gets the last one of the chapter.                              *)
Usable(s, k) == file[s][k].state = "ok"
SystemOf(k) ==
    IF Usable("system", k) THEN file["system"][k]
    ELSE file["system"][CHOOSE i \in Groups : /\ Usable("system", i)
                                              /\ \A j \in Groups : Usable("system", j) => j <= i]
Drafted(k) == /\ \A s \in {"user", "assistant"} : Usable(s, k)
              /\ \E i \in Groups : Usable("system", i)

(* A message puts together the speech of the turn as it is now with what the *)
(* three rows were asked about then; its source is the assistant row's.      *)
Message(k) ==
    [turn |-> k, speech |-> turns[k].speech, source |-> file["assistant"][k].seen,
     parts |-> [s \in Contexts |-> IF s = "system" THEN SystemOf(k).about
                                                   ELSE file[s][k].about]]

Assemble ==
    /\ phase = "contexts" /\ \A s \in Contexts : call[s].pc = "done"
    /\ draft' = {Message(k) : k \in {i \in DOMAIN turns : Drafted(i)}}
    /\ phase' = "assembled" /\ call' = [s \in Stages |-> NoCall]
    /\ UNCHANGED <<joined, file, carryOn, turns, trainable, late, runs, faults, crashes>>

(* The checks look at wording too, but the one on what a message is about is *)
(* that its speech is found in its source text.                              *)
Grounded(m) == m.speech \subseteq m.source

Check ==
    /\ phase = "assembled"
    /\ trainable' \in SUBSET {m \in draft : Grounded(m)}
    /\ phase' = "done"
    /\ UNCHANGED <<joined, file, carryOn, call, turns, draft, late, runs, faults, crashes>>

(* Every file is replaced whole, so a death loses what was not yet written.  *)
Crash ==
    /\ phase \in {"speaker", "contexts", "assembled"} /\ crashes < MaxCrashes
    /\ crashes' = crashes + 1 /\ phase' = "idle"
    /\ call' = [s \in Stages |-> NoCall]
    /\ UNCHANGED <<joined, file, carryOn, turns, draft, trainable, late, runs, faults>>

(* What the documentation advises after late attributions.                   *)
ClearContexts ==
    /\ phase \in {"idle", "failed", "done"} /\ runs \in 1..MaxRuns - 1
    /\ \E s \in Contexts : file[s] # NoRows
    /\ file' = [s \in Stages |-> IF s \in Contexts THEN NoRows ELSE file[s]]
    /\ late' = {} /\ phase' = "idle"
    /\ UNCHANGED <<joined, carryOn, call, turns, draft, trainable, runs, faults, crashes>>

PipelineNext ==
    \/ StartRun \/ Anchor \/ Fail \/ Assemble \/ Check \/ Crash \/ ClearContexts
    \/ \E s \in Stages : Finish(s) \/ \E id \in Groups : Answer(s, id)

PipelineSpec == PipelineInit /\ [][PipelineNext]_pipelineVars

(*------------------------------- properties -------------------------------*)
(* Every variable has its type.                                              *)
Row == [state : {"none", "ok", "unusable", "failed"},
        about : SUBSET Groups, seen : SUBSET Groups]
PipelineTypeOK ==
    /\ joined \in SUBSET Groups /\ late \in SUBSET Groups
    /\ file \in [Stages -> [Groups -> Row]]
    /\ phase \in {"idle", "speaker", "contexts", "assembled", "done", "failed"}
    /\ carryOn \in BOOLEAN
    /\ call \in [Stages -> [pc : {"idle", "calling", "raised", "done"}, rows : [Groups -> Row]]]
    /\ \E ids \in SUBSET Groups :
          turns \in [ids -> [speech : SUBSET Groups, beat : SUBSET Groups]]
    /\ draft \subseteq [turn : Groups, speech : SUBSET Groups, source : SUBSET Groups,
                        parts : [Contexts -> SUBSET Groups]]
    /\ trainable \subseteq [turn : Groups, speech : SUBSET Groups, source : SUBSET Groups,
                            parts : [Contexts -> SUBSET Groups]]
    /\ runs \in 0..MaxRuns /\ faults \in 0..MaxFaults /\ crashes \in 0..MaxCrashes

(* A paid answer is never lost: through deaths, failures and resumed runs a  *)
(* successful row of a response file stays what it is, unless its id is no   *)
(* longer asked for or the user removed the file.  The file is rewritten     *)
(* whole at every answer, from what the call has in memory.                  *)
SuccessIsKept ==
    [][ ClearContexts \/
        \A s \in Stages : \A id \in Groups : Successful(file[s][id]) =>
            \/ file'[s][id] = file[s][id]
            \/ id \notin Asked(s) /\ file'[s][id] = NoRow ]_pipelineVars

(* A run that ends well has left out nothing it knows of: every quote that   *)
(* is attributed to her is in a message, unless the answer for its turn was  *)
(* of no use; and no attribution is missing if the run was not to continue   *)
(* past failures.                                                            *)
NothingSkipped ==
    phase = "done" =>
        /\ ~carryOn => \A g \in Groups : Successful(file["speaker"][g])
        /\ \A g \in Hers :
              \/ \E m \in draft : g \in m.speech
              \/ \E s \in {"user", "assistant"} : file[s][TurnOf(Hers, g)].state = "unusable"

(* A message with a context that was asked for another speech is due to an   *)
(* attribution that came after contexts had been asked for, of a quote that  *)
(* is not behind the message: nothing else a resumed run does moves an       *)
(* answer to another turn.                                                   *)
MisfitIsExplained ==
    phase \in {"assembled", "done"} =>
        \A m \in draft : \A s \in Contexts :
            m.parts[s] # m.speech => \E g \in late : \E h \in m.speech : g <= h

(*----------- what the pipeline does not keep (explored by hand) -----------*)
(* Every context of a message was asked for its speech.                      *)
MessagesFit == \A m \in draft : \A s \in Contexts : m.parts[s] = m.speech

(* The checks catch a message whose contexts were asked for another speech.  *)
MisfitIsCaught == \A m \in trainable : \A s \in Contexts : m.parts[s] = m.speech
=============================================================================
