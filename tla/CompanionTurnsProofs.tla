------------------------ MODULE CompanionTurnsProofs ------------------------
(* Proofs about CompanionTurns, for every set of chats, every bound and     *)
(* every length of the cooldown and of the pause after a refusal.           *)
(*                                                                          *)
(* The row is copied, changed and written back by threads that know nothing *)
(* of each other, so that what a thread saves need not be what the row was  *)
(* before.  The invariant therefore speaks of every copy by itself: its     *)
(* fields say what its own log obliges to (Kept), and a message that is     *)
(* about to be queued was decided on a copy that allowed it (Heeded).       *)
(*                                                                          *)
(* The second part is about StagedPipeline, for every number of quotes and  *)
(* every bound: a response file grows only, and a context was asked for the *)
(* speech its turn had when the quotes that are late were not yet hers.     *)
EXTENDS CompanionTurns, StagedPipeline, FiniteSetTheorems, WellFoundedInduction, TLAPS

Contacts(log) == Of(log, {"contact"})
Refusals(log) == Of(log, {"refused"})

(* A message written at this time respects all that the log has in it.      *)
Heeded(at, log) ==
    /\ \A c \in Contacts(log) : at >= log[c].at + Cooldown
    /\ Refusals(log) # {} => at >= log[Latest(Refusals(log))].at + DndSpan
    /\ RiskOf(log) # "high"

(* The fields of a copy of the row say what its log obliges to.             *)
Kept(s) ==
    /\ s.risk = RiskOf(s.log)
    /\ \A c \in Contacts(s.log) : s.contact # Never /\ s.log[c].at <= s.contact
    /\ Refusals(s.log) # {} =>
          s.dnd # Never /\ s.dnd = s.log[Latest(Refusals(s.log))].at + DndSpan

CopiesInv ==
    /\ Kept(row)
    /\ \A a \in Actors : /\ Kept(actor[a].base)
                         /\ actor[a].pc = "queue" => Heeded(actor[a].at, actor[a].base.log)

(* Chats and servers do different things.                                   *)
PlacesInv ==
    /\ \A c \in Chats : actor[c].pc \in {"idle", "model", "answered", "failed"}
    /\ \A a \in Servers : actor[a].pc \in {"idle", "queue", "decay"}

TurnsInv == TypeOK /\ CopiesInv /\ PlacesInv /\ HoldsAreHeeded /\ NothingHalfDone
-----------------------------------------------------------------------------
(* Logs *)

Kinds == {"hold", "watch", "normal", "contact", "refused"}
LogEntry == [kind : Kinds, at : Nat]

LEMMA LogsAre == Logs = Seq(LogEntry)
  BY DEF Logs, LogEntry, Kinds

(* Every set of places in a log that is not empty has a last one.           *)
LEMMA LatestExists ==
  ASSUME NEW n \in Nat, NEW S \in SUBSET (1..n), S # {}
  PROVE  \E m \in S : \A j \in S : j <= m
  <1>. DEFINE T == {n - i : i \in S}
              Less == {p \in Nat \X Nat : p[1] < p[2]}
  <1>1. T \subseteq Nat /\ T # {}
    <2>1. \A i \in S : i \in 1..n /\ n - i \in Nat
      OBVIOUS
    <2>2. PICK i \in S : TRUE
      OBVIOUS
    <2>3. n - i \in T
      OBVIOUS
    <2>. QED
      BY <2>1, <2>3
  <1>2. IsWellFoundedOn(Less, Nat)
    BY NatLessThanWellFounded DEF OpToRel
  <1>3. \E x \in T : \A y \in T : ~ (<<y, x>> \in Less)
    <2>. HIDE DEF T, Less
    <2>. QED
      BY <1>1, <1>2, WFMin
  <1>4. PICK x \in T : \A y \in T : ~ (y < x)
    BY <1>1, <1>3
  <1>5. PICK m \in S : x = n - m
    OBVIOUS
  <1>6. ASSUME NEW j \in S PROVE j <= m
    <2>1. n - j \in T /\ ~ (n - j < n - m)
      BY <1>4, <1>5
    <2>. QED
      BY <2>1
  <1>. QED
    BY <1>6

LEMMA LatestIs ==
  ASSUME NEW S \in SUBSET Nat, NEW m \in S, \A j \in S : j <= m
  PROVE  Latest(S) = m
  <1>1. \A k \in S : (\A j \in S : j <= k) => k = m
    OBVIOUS
  <1>. QED
    BY <1>1 DEF Latest

LEMMA OfPlaces ==
  ASSUME NEW log \in Logs, NEW kinds
  PROVE  /\ Len(log) \in Nat
         /\ Of(log, kinds) \subseteq 1..Len(log)
         /\ Of(log, kinds) # {} =>
               /\ Latest(Of(log, kinds)) \in Of(log, kinds)
               /\ \A j \in Of(log, kinds) : j <= Latest(Of(log, kinds))
  <1>1. Len(log) \in Nat /\ DOMAIN log = 1..Len(log)
    BY LogsAre
  <1>2. Of(log, kinds) \subseteq 1..Len(log)
    BY <1>1 DEF Of
  <1>3. ASSUME Of(log, kinds) # {}
        PROVE  /\ Latest(Of(log, kinds)) \in Of(log, kinds)
               /\ \A j \in Of(log, kinds) : j <= Latest(Of(log, kinds))
    <2>1. PICK m \in Of(log, kinds) : \A j \in Of(log, kinds) : j <= m
      BY <1>1, <1>2, <1>3, LatestExists
    <2>2. Latest(Of(log, kinds)) = m
      BY <1>1, <1>2, <2>1, LatestIs
    <2>. QED
      BY <2>1, <2>2
  <1>. QED
    BY <1>1, <1>2, <1>3

(* A longer log: its new entry is the latest of its kinds, the others stay. *)
LEMMA OfAppend ==
  ASSUME NEW log \in Logs, NEW e \in LogEntry, NEW kinds
  PROVE  /\ Append(log, e) \in Logs
         /\ \A i \in 1..Len(log) : Append(log, e)[i] = log[i]
         /\ Append(log, e)[Len(log) + 1] = e
         /\ e.kind \notin kinds => Of(Append(log, e), kinds) = Of(log, kinds)
         /\ e.kind \in kinds =>
               /\ Of(Append(log, e), kinds) = Of(log, kinds) \cup {Len(log) + 1}
               /\ Latest(Of(Append(log, e), kinds)) = Len(log) + 1
  <1>. DEFINE new == Append(log, e)
  <1>1. /\ new \in Logs /\ DOMAIN new = 1..Len(log) + 1 /\ Len(log) \in Nat
        /\ DOMAIN log = 1..Len(log)
        /\ \A i \in 1..Len(log) : new[i] = log[i]
        /\ new[Len(log) + 1] = e
    BY LogsAre
  <1>. HIDE DEF new
  <1>2. e.kind \notin kinds => Of(new, kinds) = Of(log, kinds)
    BY <1>1 DEF Of
  <1>3. e.kind \in kinds => Of(new, kinds) = Of(log, kinds) \cup {Len(log) + 1}
    BY <1>1 DEF Of
  <1>4. e.kind \in kinds => Latest(Of(new, kinds)) = Len(log) + 1
    <2>1. Of(log, kinds) \subseteq 1..Len(log)
      BY OfPlaces
    <2>. QED
      BY <1>1, <1>3, <2>1, LatestIs
  <1>. QED
    BY <1>1, <1>2, <1>3, <1>4 DEF new

(* What one more turn, message or refusal does to the risk a log stands for.*)
LEMMA RiskOfAppend ==
  ASSUME NEW log \in Logs, NEW e \in LogEntry
  PROVE  /\ e.kind = "hold" => RiskOf(Append(log, e)) = "high"
         /\ e.kind = "watch" => RiskOf(Append(log, e)) = "elevated"
         /\ e.kind = "normal" =>
               RiskOf(Append(log, e)) = IF RiskOf(log) = "high" THEN "high" ELSE "low"
         /\ e.kind \in {"contact", "refused"} => RiskOf(Append(log, e)) = RiskOf(log)
  <1>. DEFINE new == Append(log, e)
              telling == {"hold", "watch"}
  <1>1. /\ Len(log) \in Nat
        /\ \A i \in 1..Len(log) : new[i] = log[i]
        /\ new[Len(log) + 1] = e
    BY OfAppend, LogsAre
  <1>2. /\ Of(log, telling) \subseteq 1..Len(log)
        /\ Of(log, Labels) \subseteq 1..Len(log)
        /\ Of(log, telling) # {} => Latest(Of(log, telling)) \in Of(log, telling)
    BY OfPlaces
  <1>3. e.kind \notin telling => Of(new, telling) = Of(log, telling)
    BY OfAppend
  <1>4. e.kind \in telling => /\ Of(new, telling) = Of(log, telling) \cup {Len(log) + 1}
                              /\ Latest(Of(new, telling)) = Len(log) + 1
    BY OfAppend
  <1>5. e.kind \in Labels => Latest(Of(new, Labels)) = Len(log) + 1
    BY OfAppend
  <1>6. e.kind \notin Labels => Of(new, Labels) = Of(log, Labels)
    BY OfAppend
  <1>7. Of(log, telling) # {} => new[Latest(Of(log, telling))] = log[Latest(Of(log, telling))]
    BY <1>1, <1>2
  <1>8. \A l : RiskOf(l) = IF Of(l, telling) = {} THEN "low"
                           ELSE IF l[Latest(Of(l, telling))].kind = "hold" THEN "high"
                           ELSE IF Latest(Of(l, telling)) = Latest(Of(l, Labels))
                           THEN "elevated" ELSE "low"
    BY DEF RiskOf
  <1>. HIDE DEF new, telling
  <1>9. e.kind = "hold" => RiskOf(new) = "high"
    BY <1>1, <1>4, <1>8 DEF telling
  <1>10. e.kind = "watch" => RiskOf(new) = "elevated"
    BY <1>1, <1>4, <1>5, <1>8 DEF telling, Labels
  <1>11. e.kind = "normal" => RiskOf(new) = IF RiskOf(log) = "high" THEN "high" ELSE "low"
    <2>. SUFFICES ASSUME e.kind = "normal"
                 PROVE  RiskOf(new) = IF RiskOf(log) = "high" THEN "high" ELSE "low"
      OBVIOUS
    <2>1. Of(new, telling) = Of(log, telling) /\ Latest(Of(new, Labels)) = Len(log) + 1
      BY <1>3, <1>5 DEF telling, Labels
    <2>2. CASE Of(log, telling) = {}
      BY <2>1, <2>2, <1>8
    <2>3. CASE Of(log, telling) # {}
      <3>1. Latest(Of(log, telling)) # Len(log) + 1
        BY <2>3, <1>1, <1>2
      <3>. QED
        BY <2>1, <2>3, <3>1, <1>7, <1>8
    <2>. QED
      BY <2>2, <2>3
  <1>12. e.kind \in {"contact", "refused"} => RiskOf(new) = RiskOf(log)
    <2>1. e.kind \in {"contact", "refused"} =>
             Of(new, telling) = Of(log, telling) /\ Of(new, Labels) = Of(log, Labels)
      BY <1>3, <1>6 DEF telling, Labels
    <2>. QED
      BY <2>1, <1>7, <1>8
  <1>. QED
    BY <1>9, <1>10, <1>11, <1>12 DEF new

LEMMA RiskOfType == ASSUME NEW log PROVE RiskOf(log) \in {"low", "elevated", "high"}
  BY DEF RiskOf

(* The three places that set the level come to what the label says.         *)
LEMMA LevelIsLabel ==
  ASSUME NEW risk \in {"low", "elevated", "high"}, NEW user \in UserWords, NEW reply \in ReplyWords
  PROVE  LET flags == RiskFlags(user, reply)
             label == RiskLabel(user, flags)
             level == RiskLevelForLabel(label, Told(risk, user, flags))
         IN  /\ label \in Labels
             /\ label = "hold" => level = "high"
             /\ label = "watch" => level = "elevated"
             /\ label = "normal" => level = IF risk = "high" THEN "high" ELSE "low"
  BY DEF UserWords, ReplyWords, RiskFlags, RiskLabel, RiskLevelForLabel, Told, FlagsRisk,
         EnergyRisk, Labels
-----------------------------------------------------------------------------
(* What the state engine makes of a copy *)

Levels == {"low", "elevated", "high"}

LEMMA Constants ==
  /\ MaxTime \in Nat /\ Cooldown \in Nat /\ DndSpan \in Nat /\ MaxDecays \in Nat
  /\ Never \in Nat /\ Never = MaxTime + DndSpan + 1
  BY CompanionAssumption DEF Never

LEMMA RowFields ==
  ASSUME NEW s \in Rows
  PROVE  /\ s.risk \in Levels /\ s.dnd \in Nat /\ s.contact \in Nat /\ s.log \in Logs
         /\ s.allowed \in BOOLEAN
  BY DEF Rows, Levels

LEMMA ReadyIs ==
  ASSUME NEW s \in Rows
  PROVE  /\ Ready(s) \in Rows
         /\ Ready(s).risk = s.risk /\ Ready(s).dnd = s.dnd /\ Ready(s).contact = s.contact
         /\ Ready(s).log = s.log
  BY DEF Ready, Rows

LEMMA LoggedIs ==
  ASSUME NEW s \in Rows, NEW kind \in Kinds, NEW at \in Nat
  PROVE  /\ Logged(s, kind, at) \in Rows
         /\ Logged(s, kind, at).risk = s.risk /\ Logged(s, kind, at).dnd = s.dnd
         /\ Logged(s, kind, at).contact = s.contact
         /\ Logged(s, kind, at).log = Append(s.log, [kind |-> kind, at |-> at])
         /\ [kind |-> kind, at |-> at] \in LogEntry
  <1>. DEFINE log == Append(s.log, [kind |-> kind, at |-> at])
  <1>1. [kind |-> kind, at |-> at] \in LogEntry
    BY DEF LogEntry
  <1>2. log \in Logs
    BY <1>1, RowFields, OfAppend
  <1>3. Logged(s, kind, at) = [s EXCEPT !.log = log]
    BY DEF Logged
  <1>. HIDE DEF log
  <1>4. [s EXCEPT !.log = log] \in Rows
    BY <1>2 DEF Rows
  <1>5. /\ [s EXCEPT !.log = log].risk = s.risk /\ [s EXCEPT !.log = log].dnd = s.dnd
        /\ [s EXCEPT !.log = log].contact = s.contact /\ [s EXCEPT !.log = log].log = log
    BY DEF Rows
  <1>. QED
    BY <1>1, <1>3, <1>4, <1>5 DEF log

(* A copy stays kept when its fields move with its log.                     *)
LEMMA KeptAppend ==
  ASSUME NEW s \in Rows, Kept(s), NEW e \in LogEntry, NEW new \in Rows,
         new.log = Append(s.log, e), new.risk = RiskOf(new.log),
         IF e.kind = "contact"
         THEN /\ new.contact = e.at /\ new.contact # Never
              /\ \A c \in Contacts(s.log) : s.log[c].at <= e.at
         ELSE new.contact = s.contact,
         IF e.kind = "refused"
         THEN new.dnd = e.at + DndSpan /\ new.dnd # Never
         ELSE new.dnd = s.dnd
  PROVE  Kept(new)
  <1>. DEFINE log == new.log
  <1>1. /\ s.log \in Logs /\ Len(s.log) \in Nat
        /\ \A i \in 1..Len(s.log) : log[i] = s.log[i]
        /\ log[Len(s.log) + 1] = e
    BY RowFields, OfAppend, LogsAre
  <1>2. \A c \in Contacts(log) : new.contact # Never /\ log[c].at <= new.contact
    <2>1. Contacts(s.log) \subseteq 1..Len(s.log)
      BY <1>1, OfPlaces DEF Contacts
    <2>2. CASE e.kind = "contact"
      <3>1. Contacts(log) = Contacts(s.log) \cup {Len(s.log) + 1}
        BY <1>1, <2>2, OfAppend DEF Contacts
      <3>2. e.at <= e.at
        BY DEF LogEntry
      <3>. QED
        BY <1>1, <2>1, <2>2, <3>1, <3>2
    <2>3. CASE e.kind # "contact"
      <3>1. Contacts(log) = Contacts(s.log)
        BY <1>1, <2>3, OfAppend DEF Contacts
      <3>. QED
        BY <1>1, <2>1, <2>3, <3>1 DEF Kept
    <2>. QED
      BY <2>2, <2>3
  <1>3. Refusals(log) # {} =>
           new.dnd # Never /\ new.dnd = log[Latest(Refusals(log))].at + DndSpan
    <2>1. CASE e.kind = "refused"
      <3>1. Latest(Refusals(log)) = Len(s.log) + 1
        BY <1>1, <2>1, OfAppend DEF Refusals
      <3>. QED
        BY <1>1, <2>1, <3>1
    <2>2. CASE e.kind # "refused"
      <3>1. Refusals(log) = Refusals(s.log)
        BY <1>1, <2>2, OfAppend DEF Refusals
      <3>2. Refusals(s.log) # {} => Latest(Refusals(s.log)) \in 1..Len(s.log)
        BY <1>1, OfPlaces DEF Refusals
      <3>. QED
        BY <1>1, <2>2, <3>1, <3>2 DEF Kept
    <2>. QED
      BY <2>1, <2>2
  <1>. QED
    BY <1>2, <1>3 DEF Kept

LEMMA ReadyKept ==
  ASSUME NEW s \in Rows, Kept(s) PROVE Kept(Ready(s))
  BY ReadyIs DEF Kept

LEMMA ApplyTurnKept ==
  ASSUME NEW s \in Rows, Kept(s), NEW user \in UserWords, NEW reply \in ReplyWords
  PROVE  ApplyTurn(s, user, reply) \in Rows /\ Kept(ApplyTurn(s, user, reply))
  <1>. DEFINE flags == RiskFlags(user, reply)
              label == RiskLabel(user, flags)
              level == RiskLevelForLabel(label, Told(s.risk, user, flags))
              told == [s EXCEPT !.risk = level]
              e == [kind |-> label, at |-> 0]
              new == ApplyTurn(s, user, reply)
  <1>1. s.risk \in {"low", "elevated", "high"} /\ s.log \in Logs
    BY DEF Rows
  <1>2. /\ label \in Labels
        /\ label = "hold" => level = "high"
        /\ label = "watch" => level = "elevated"
        /\ label = "normal" => level = IF s.risk = "high" THEN "high" ELSE "low"
    BY <1>1, LevelIsLabel
  <1>3. new = Logged(Ready(told), label, 0)
    BY DEF ApplyTurn
  <1>. HIDE DEF level, label, new
  <1>4. label \in Kinds /\ level \in Levels /\ label \notin {"contact", "refused"}
    BY <1>2 DEF Labels, Kinds, Levels
  <1>5. /\ told \in Rows /\ told.risk = level /\ told.dnd = s.dnd
        /\ told.contact = s.contact /\ told.log = s.log
    BY <1>4 DEF Rows, Levels
  <1>. HIDE DEF told
  <1>6. /\ new \in Rows /\ new.risk = level /\ new.dnd = s.dnd /\ new.contact = s.contact
        /\ new.log = Append(s.log, e) /\ e \in LogEntry
    BY <1>3, <1>4, <1>5, ReadyIs, LoggedIs
  <1>7. new.risk = RiskOf(new.log)
    <2>1. e.kind = label /\ RiskOf(s.log) = s.risk
      BY DEF Kept
    <2>. QED
      BY <1>1, <1>2, <1>6, <2>1, RiskOfAppend DEF Labels
  <1>8. Kept(new)
    BY <1>4, <1>6, <1>7, KeptAppend
  <1>. QED
    BY <1>6, <1>8 DEF new

LEMMA FeedbackKept ==
  ASSUME NEW s \in Rows, Kept(s), NEW at \in 0..MaxTime,
         NEW status \in {"welcomed", "dismissed", "refused"}
  PROVE  /\ ApplyProactiveFeedback(s, status, at) \in Rows
         /\ Kept(ApplyProactiveFeedback(s, status, at))
  <1>. DEFINE new == ApplyProactiveFeedback(s, status, at)
              shut == [Ready(s) EXCEPT !.allowed = FALSE]
              paused == [Ready(s) EXCEPT !.allowed = FALSE, !.dnd = at + DndSpan]
              e == [kind |-> "refused", at |-> at]
  <1>1. Ready(s) \in Rows /\ Kept(Ready(s))
    BY ReadyIs, ReadyKept
  <1>2. at \in Nat /\ at + DndSpan \in Nat /\ at + DndSpan # Never
    BY Constants
  <1>3. CASE status = "welcomed"
    BY <1>1, <1>3 DEF ApplyProactiveFeedback
  <1>4. CASE status = "dismissed"
    <2>1. new = shut
      BY <1>4 DEF ApplyProactiveFeedback
    <2>2. /\ shut \in Rows /\ shut.risk = Ready(s).risk /\ shut.dnd = Ready(s).dnd
          /\ shut.contact = Ready(s).contact /\ shut.log = Ready(s).log
      BY <1>1 DEF Rows
    <2>. HIDE DEF new, shut
    <2>3. Kept(shut)
      BY <1>1, <2>2 DEF Kept
    <2>. QED
      BY <2>1, <2>2, <2>3 DEF new
  <1>5. CASE status = "refused"
    <2>1. new = Logged(paused, "refused", at)
      BY <1>5 DEF ApplyProactiveFeedback
    <2>2. /\ paused \in Rows /\ paused.risk = s.risk /\ paused.dnd = at + DndSpan
          /\ paused.contact = s.contact /\ paused.log = s.log
      BY <1>1, <1>2, ReadyIs DEF Rows
    <2>. HIDE DEF paused, new
    <2>3. /\ new \in Rows /\ new.risk = s.risk /\ new.dnd = at + DndSpan
          /\ new.contact = s.contact /\ new.log = Append(s.log, e) /\ e \in LogEntry
      BY <1>2, <2>1, <2>2, LoggedIs DEF Kinds
    <2>4. new.risk = RiskOf(new.log)
      <3>1. e.kind = "refused" /\ RiskOf(s.log) = s.risk
        BY DEF Kept
      <3>. QED
        BY <2>3, <3>1, RowFields, RiskOfAppend
    <2>5. Kept(new)
      BY <1>2, <2>3, <2>4, KeptAppend
    <2>. QED
      BY <2>3, <2>5 DEF new
  <1>. QED
    BY <1>3, <1>4, <1>5

LEMMA ContactKept ==
  ASSUME NEW s \in Rows, Kept(s), NEW at \in 0..MaxTime, Heeded(at, s.log)
  PROVE  MarkProactiveContact(s, at) \in Rows /\ Kept(MarkProactiveContact(s, at))
  <1>. DEFINE new == MarkProactiveContact(s, at)
              marked == [s EXCEPT !.contact = at]
              e == [kind |-> "contact", at |-> at]
  <1>1. at \in Nat /\ at # Never
    BY Constants
  <1>2. /\ marked \in Rows /\ marked.risk = s.risk /\ marked.dnd = s.dnd
        /\ marked.contact = at /\ marked.log = s.log
    BY <1>1 DEF Rows
  <1>3. new = Logged(marked, "contact", at)
    BY DEF MarkProactiveContact
  <1>. HIDE DEF marked, new
  <1>4. /\ new \in Rows /\ new.risk = s.risk /\ new.dnd = s.dnd
        /\ new.contact = at /\ new.log = Append(s.log, e) /\ e \in LogEntry
    BY <1>1, <1>2, <1>3, LoggedIs DEF Kinds
  <1>5. new.risk = RiskOf(new.log)
    <2>1. e.kind = "contact" /\ RiskOf(s.log) = s.risk
      BY DEF Kept
    <2>. QED
      BY <1>4, <2>1, RowFields, RiskOfAppend
  <1>6. \A c \in Contacts(s.log) : s.log[c].at <= at
    <2>. SUFFICES ASSUME NEW c \in Contacts(s.log) PROVE s.log[c].at <= at
      OBVIOUS
    <2>1. at >= s.log[c].at + Cooldown
      BY DEF Heeded
    <2>2. s.log[c] \in LogEntry
      BY RowFields, LogsAre DEF Contacts, Of
    <2>. QED
      BY <1>1, <2>1, <2>2, Constants DEF LogEntry
  <1>7. Kept(new)
    BY <1>1, <1>4, <1>5, <1>6, KeptAppend
  <1>. QED
    BY <1>4, <1>7 DEF new

(* A decision to write is taken on a copy that allows it.                   *)
LEMMA DueIsHeeded ==
  ASSUME NEW s \in Rows, Kept(s), NEW at \in 0..MaxTime, NEW absent, NEW open,
         Due(s, at, absent, open)
  PROVE  Heeded(at, s.log)
  <1>1. /\ ~ IsDnd(s, at) /\ ~ RecentProactiveCooldown(s, at) /\ s.risk # "high"
    <2>1. HoldReasons(s, at) = {}
      BY DEF Due
    <2>. QED
      BY <2>1 DEF HoldReasons
  <1>2. at \in Nat /\ s.contact \in Nat /\ s.dnd \in Nat /\ s.log \in Logs
    BY Constants, RowFields
  <1>3. ASSUME NEW c \in Contacts(s.log) PROVE at >= s.log[c].at + Cooldown
    <2>1. s.contact # Never /\ s.log[c].at <= s.contact
      BY DEF Kept
    <2>2. ~ (at < s.contact + Cooldown)
      BY <1>1, <2>1 DEF RecentProactiveCooldown
    <2>3. s.log[c].at \in Nat
      <3>1. s.log[c] \in LogEntry
        BY <1>2, LogsAre DEF Contacts, Of
      <3>. QED
        BY <3>1 DEF LogEntry
    <2>. QED
      BY <1>2, <2>1, <2>2, <2>3, Constants
  <1>4. ASSUME Refusals(s.log) # {} PROVE at >= s.log[Latest(Refusals(s.log))].at + DndSpan
    <2>1. s.dnd # Never /\ s.dnd = s.log[Latest(Refusals(s.log))].at + DndSpan
      BY <1>4 DEF Kept
    <2>2. ~ (at < s.dnd)
      BY <1>1, <2>1 DEF IsDnd
    <2>3. at >= s.dnd
      BY <1>2, <2>2
    <2>. QED
      BY <2>1, <2>3
  <1>. QED
    BY <1>1, <1>3, <1>4 DEF Heeded, Kept
-----------------------------------------------------------------------------
(* TurnsInv is inductive *)

Pcs == {"idle", "model", "queue", "decay", "answered", "failed"}
Acts == [pc : Pcs, at : 0..MaxTime, base : Rows]
Messages == [at : 0..MaxTime, log : Logs, answered : BOOLEAN]

(* What a thread may be.                                                    *)
Fits(a, x) ==
    /\ x \in Acts /\ Kept(x.base)
    /\ x.pc = "queue" => Heeded(x.at, x.base.log)
    /\ a \in Chats => x.pc \in {"idle", "model", "answered", "failed"}
    /\ a \in Servers => x.pc \in {"idle", "queue", "decay"}

ThreadsFit == \A a \in Actors : Fits(a, actor[a])

LEMMA TurnsInvIs ==
  TurnsInv <=> /\ row \in Rows /\ Kept(row)
               /\ raw \in [Chats -> SUBSET {"user", "assistant"}]
               /\ outbox \in Seq(Messages)
               /\ actor \in [Actors -> Acts] /\ ThreadsFit
               /\ decays \in 0..MaxDecays /\ now \in 0..MaxTime
               /\ HoldsAreHeeded /\ NothingHalfDone
  <1>1. TypeOK <=> /\ row \in Rows
                   /\ raw \in [Chats -> SUBSET {"user", "assistant"}]
                   /\ outbox \in Seq(Messages)
                   /\ actor \in [Actors -> Acts]
                   /\ decays \in 0..MaxDecays /\ now \in 0..MaxTime
    BY DEF TypeOK, Acts, Pcs, Messages
  <1>2. actor \in [Actors -> Acts] => (CopiesInv /\ PlacesInv <=> Kept(row) /\ ThreadsFit)
    BY DEF CopiesInv, PlacesInv, ThreadsFit, Fits, Actors
  <1>. QED
    BY <1>1, <1>2 DEF TurnsInv

LEMMA TurnsInvNext ==
  ASSUME row' \in Rows, Kept(row)', raw' \in [Chats -> SUBSET {"user", "assistant"}],
         outbox' \in Seq(Messages), actor' \in [Actors -> Acts], ThreadsFit',
         decays' \in 0..MaxDecays, now' \in 0..MaxTime, HoldsAreHeeded', NothingHalfDone'
  PROVE  TurnsInv'
  <1>1. TypeOK'
    BY DEF TypeOK, Acts, Pcs, Messages
  <1>2. CopiesInv' /\ PlacesInv'
    BY DEF CopiesInv, PlacesInv, ThreadsFit, Fits, Actors
  <1>. QED
    BY <1>1, <1>2 DEF TurnsInv

LEMMA HeededIs ==
  HoldsAreHeeded <=> \A i \in DOMAIN outbox : Heeded(outbox[i].at, outbox[i].log)
  BY DEF HoldsAreHeeded, Heeded, Contacts, Refusals

LEMMA FirstRowKept == FirstRow \in Rows /\ Kept(FirstRow)
  <1>1. <<>> \in Logs /\ DOMAIN <<>> = {}
    BY LogsAre
  <1>2. FirstRow \in Rows /\ FirstRow.log = <<>> /\ FirstRow.risk = "low"
    BY <1>1, Constants DEF FirstRow, Rows
  <1>3. \A kinds : Of(<<>>, kinds) = {}
    BY <1>1 DEF Of
  <1>4. RiskOf(<<>>) = "low"
    BY <1>3 DEF RiskOf
  <1>. QED
    BY <1>2, <1>3, <1>4 DEF Kept, Contacts, Refusals

LEMMA IdleIs ==
  /\ Idle \in Acts /\ Kept(Idle.base) /\ Idle.pc = "idle"
  /\ \A outcome \in Pcs :
        /\ Over(outcome) \in Acts /\ Kept(Over(outcome).base) /\ Over(outcome).pc = outcome
  BY FirstRowKept, Constants DEF Idle, Over, Acts, Pcs

LEMMA IdleFits ==
  /\ \A a : Fits(a, Idle)
  /\ \A a \in Chats : Fits(a, Over("answered")) /\ Fits(a, Over("failed"))
  BY IdleIs, CompanionAssumption DEF Fits, Pcs, Servers

LEMMA ThreadsStay ==
  ASSUME actor \in [Actors -> Acts], ThreadsFit, NEW a \in Actors, NEW x, Fits(a, x),
         actor' = [actor EXCEPT ![a] = x]
  PROVE  /\ actor' \in [Actors -> Acts] /\ ThreadsFit'
         /\ actor'[a] = x /\ \A b \in Actors \ {a} : actor'[b] = actor[b]
  BY DEF ThreadsFit, Fits

(* A save leaves an idle server, or a chat that has been answered.          *)
LEMMA SaveIs ==
  ASSUME TurnsInv, NEW a \in Actors, NEW s \in Rows, Kept(s), Save(a, s)
  PROVE  /\ row' \in Rows /\ Kept(row)'
         /\ actor' \in [Actors -> Acts] /\ ThreadsFit'
         /\ a \in Chats => actor'[a].pc = "answered"
         /\ \A b \in Actors \ {a} : actor'[b] = actor[b]
  <1>. DEFINE x == IF a \in Chats THEN Over("answered") ELSE Idle
  <1>1. Fits(a, x)
    BY IdleFits
  <1>2. row' = s /\ actor' = [actor EXCEPT ![a] = x]
    BY DEF Save
  <1>3. /\ actor' \in [Actors -> Acts] /\ ThreadsFit'
        /\ actor'[a] = x /\ \A b \in Actors \ {a} : actor'[b] = actor[b]
    BY <1>1, <1>2, TurnsInvIs, ThreadsStay
  <1>4. Kept(row)'
    BY <1>2
  <1>5. a \in Chats => x.pc = "answered"
    BY IdleIs DEF Pcs
  <1>. QED
    BY <1>2, <1>3, <1>4, <1>5

LEMMA ServersAreNoChats ==
  /\ Chats \subseteq Actors /\ Servers \subseteq Actors
  /\ \A a \in Servers : a \notin Chats
  /\ "api" \in Servers /\ "worker" \in Servers
  BY CompanionAssumption DEF Servers, Actors

(* Steps that write no raw message and answer no chat.                      *)
LEMMA NothingHalfDoneStays ==
  ASSUME NothingHalfDone, UNCHANGED raw,
         \A c \in Chats : (actor'[c].pc = "answered") <=> (actor[c].pc = "answered")
  PROVE  NothingHalfDone'
  BY DEF NothingHalfDone

LEMMA TurnsStep ==
  ASSUME TurnsInv, NEW c \in Chats, Chat(c)
  PROVE  TurnsInv'
  <1>. USE ServersAreNoChats
  <1>1. /\ row \in Rows /\ Kept(row) /\ raw \in [Chats -> SUBSET {"user", "assistant"}]
        /\ outbox \in Seq(Messages) /\ actor \in [Actors -> Acts] /\ ThreadsFit
        /\ decays \in 0..MaxDecays /\ now \in 0..MaxTime /\ HoldsAreHeeded /\ NothingHalfDone
    BY TurnsInvIs
  <1>2. UNCHANGED <<outbox, decays, now>>
    BY DEF Chat, Ask, CancelChat, PersistTurn
  <1>3. HoldsAreHeeded'
    BY <1>1, <1>2 DEF HoldsAreHeeded
  <1>4. CASE Ask(c)
    <2>. DEFINE x == [actor[c] EXCEPT !.pc = "model", !.base = row]
    <2>1. x \in Acts /\ x.pc = "model" /\ x.base = row
      BY <1>1 DEF Acts, Pcs
    <2>2. actor' = [actor EXCEPT ![c] = x] /\ UNCHANGED <<row, raw>> /\ actor[c].pc = "idle"
      BY <1>4 DEF Ask
    <2>. HIDE DEF x
    <2>3. Fits(c, x)
      BY <1>1, <2>1 DEF Fits
    <2>4. /\ actor' \in [Actors -> Acts] /\ ThreadsFit'
          /\ actor'[c] = x /\ \A b \in Actors \ {c} : actor'[b] = actor[b]
      BY <1>1, <2>2, <2>3, ThreadsStay
    <2>5. NothingHalfDone'
      BY <1>1, <2>1, <2>2, <2>4, NothingHalfDoneStays
    <2>6. Kept(row)'
      BY <1>1, <2>2
    <2>. QED
      BY <1>1, <1>2, <1>3, <2>2, <2>4, <2>5, <2>6, TurnsInvNext
  <1>5. CASE CancelChat(c)
    <2>1. /\ actor' = [actor EXCEPT ![c] = Over("failed")] /\ UNCHANGED <<row, raw>>
          /\ actor[c].pc = "model"
      BY <1>5 DEF CancelChat
    <2>2. /\ actor' \in [Actors -> Acts] /\ ThreadsFit' /\ actor'[c].pc = "failed"
          /\ \A b \in Actors \ {c} : actor'[b] = actor[b]
      BY <1>1, <2>1, IdleFits, IdleIs, ThreadsStay DEF Pcs
    <2>3. NothingHalfDone'
      BY <1>1, <2>1, <2>2, NothingHalfDoneStays
    <2>4. Kept(row)'
      BY <1>1, <2>1
    <2>. QED
      BY <1>1, <1>2, <1>3, <2>1, <2>2, <2>3, <2>4, TurnsInvNext
  <1>6. ASSUME NEW u \in UserWords, NEW r \in ReplyWords, PersistTurn(c, u, r)
        PROVE  TurnsInv'
    <2>1. actor[c].base \in Rows /\ Kept(actor[c].base)
      BY <1>1 DEF Acts, ThreadsFit, Fits
    <2>2. /\ ApplyTurn(actor[c].base, u, r) \in Rows
          /\ Kept(ApplyTurn(actor[c].base, u, r))
      BY <2>1, ApplyTurnKept
    <2>3. /\ Save(c, ApplyTurn(actor[c].base, u, r)) /\ actor[c].pc = "model"
          /\ raw' = [raw EXCEPT ![c] = @ \cup {"user", "assistant"}]
      BY <1>6 DEF PersistTurn, AppendRawMessages
    <2>4. /\ row' \in Rows /\ Kept(row)' /\ actor' \in [Actors -> Acts] /\ ThreadsFit'
          /\ actor'[c].pc = "answered"
          /\ \A b \in Actors \ {c} : actor'[b] = actor[b]
      BY <2>2, <2>3, SaveIs
    <2>5. raw' \in [Chats -> SUBSET {"user", "assistant"}]
      BY <1>1, <2>3
    <2>6. NothingHalfDone'
      <3>1. raw[c] = {}
        BY <1>1, <2>3 DEF NothingHalfDone
      <3>2. /\ raw'[c] = {"user", "assistant"}
            /\ \A b \in Chats \ {c} : raw'[b] = raw[b]
        BY <1>1, <2>3, <3>1
      <3>. QED
        BY <1>1, <2>4, <3>2 DEF NothingHalfDone
    <2>. QED
      BY <1>1, <1>2, <1>3, <2>4, <2>5, <2>6, TurnsInvNext
  <1>. QED
    BY <1>4, <1>5, <1>6 DEF Chat

LEMMA ProactiveStep ==
  ASSUME TurnsInv, NEW a \in Servers, Proactive(a)
  PROVE  TurnsInv'
  <1>. USE ServersAreNoChats
  <1>1. /\ row \in Rows /\ Kept(row) /\ raw \in [Chats -> SUBSET {"user", "assistant"}]
        /\ outbox \in Seq(Messages) /\ actor \in [Actors -> Acts] /\ ThreadsFit
        /\ decays \in 0..MaxDecays /\ now \in 0..MaxTime /\ HoldsAreHeeded /\ NothingHalfDone
    BY TurnsInvIs
  <1>2. UNCHANGED <<raw, decays, now>>
    BY DEF Proactive, ProactiveTick, QueueMessage
  <1>3. CASE ProactiveTick(a)
    <2>. DEFINE x == [actor[a] EXCEPT !.pc = "queue", !.at = now, !.base = row]
    <2>1. Heeded(now, row.log)
      <3>1. PICK absent \in Availability, open \in Gates : Due(row, now, absent, open)
        BY <1>3 DEF ProactiveTick
      <3>. QED
        BY <1>1, <3>1, DueIsHeeded
    <2>2. x \in Acts /\ x.pc = "queue" /\ x.at = now /\ x.base = row
      BY <1>1 DEF Acts, Pcs
    <2>3. actor' = [actor EXCEPT ![a] = x] /\ UNCHANGED <<row, outbox>>
      BY <1>3 DEF ProactiveTick
    <2>. HIDE DEF x
    <2>4. Fits(a, x)
      BY <1>1, <2>1, <2>2 DEF Fits
    <2>5. /\ actor' \in [Actors -> Acts] /\ ThreadsFit'
          /\ \A b \in Actors \ {a} : actor'[b] = actor[b]
      BY <1>1, <2>3, <2>4, ThreadsStay
    <2>6. NothingHalfDone'
      BY <1>1, <1>2, <2>5, NothingHalfDoneStays
    <2>7. HoldsAreHeeded' /\ Kept(row)'
      BY <1>1, <2>3 DEF HoldsAreHeeded
    <2>. QED
      BY <1>1, <1>2, <2>3, <2>5, <2>6, <2>7, TurnsInvNext
  <1>4. CASE QueueMessage(a)
    <2>. DEFINE p == actor[a]
                m == [at |-> p.at, log |-> p.base.log, answered |-> FALSE]
    <2>1. /\ p.pc = "queue" /\ outbox' = Append(outbox, m)
          /\ Save(a, MarkProactiveContact(p.base, p.at))
      BY <1>4 DEF QueueMessage
    <2>2. /\ p.base \in Rows /\ Kept(p.base) /\ p.at \in 0..MaxTime
          /\ Heeded(p.at, p.base.log)
      BY <1>1, <2>1 DEF Acts, ThreadsFit, Fits
    <2>3. /\ MarkProactiveContact(p.base, p.at) \in Rows
          /\ Kept(MarkProactiveContact(p.base, p.at))
      BY <2>2, ContactKept
    <2>4. /\ row' \in Rows /\ Kept(row)' /\ actor' \in [Actors -> Acts] /\ ThreadsFit'
          /\ \A b \in Actors \ {a} : actor'[b] = actor[b]
      BY <2>1, <2>3, SaveIs
    <2>5. m \in Messages /\ m.at = p.at /\ m.log = p.base.log
      BY <2>2, RowFields DEF Messages
    <2>. HIDE DEF m
    <2>6. outbox' \in Seq(Messages)
      BY <1>1, <2>1, <2>5
    <2>7. ASSUME NEW i \in DOMAIN outbox' PROVE Heeded(outbox'[i].at, outbox'[i].log)
      <3>1. CASE i \in 1..Len(outbox)
        <4>1. outbox'[i] = outbox[i] /\ i \in DOMAIN outbox
          BY <1>1, <2>1, <2>5, <3>1
        <4>. QED
          BY <1>1, <4>1, HeededIs
      <3>2. CASE i = Len(outbox) + 1
        <4>1. outbox'[i] = m
          BY <1>1, <2>1, <2>5, <3>2
        <4>. QED
          BY <2>2, <2>5, <4>1
      <3>. QED
        BY <1>1, <2>1, <2>5, <3>1, <3>2
    <2>8. HoldsAreHeeded'
      BY <2>7 DEF HoldsAreHeeded, Heeded, Contacts, Refusals
    <2>9. NothingHalfDone'
      BY <1>1, <1>2, <2>4, NothingHalfDoneStays
    <2>. QED
      BY <1>1, <1>2, <2>4, <2>6, <2>8, <2>9, TurnsInvNext
  <1>. QED
    BY <1>3, <1>4 DEF Proactive

LEMMA FeedbackStep ==
  ASSUME TurnsInv, NEW i \in 1..Len(outbox), NEW status \in {"welcomed", "dismissed", "refused"},
         NEW at \in {0, now}, RecordFeedback(i, status, at)
  PROVE  TurnsInv'
  <1>. USE ServersAreNoChats
  <1>1. /\ row \in Rows /\ Kept(row) /\ raw \in [Chats -> SUBSET {"user", "assistant"}]
        /\ outbox \in Seq(Messages) /\ actor \in [Actors -> Acts] /\ ThreadsFit
        /\ decays \in 0..MaxDecays /\ now \in 0..MaxTime /\ HoldsAreHeeded /\ NothingHalfDone
    BY TurnsInvIs
  <1>2. at \in 0..MaxTime
    BY <1>1, Constants
  <1>3. /\ Save("api", ApplyProactiveFeedback(row, status, at))
        /\ outbox' = [outbox EXCEPT ![i].answered = TRUE]
        /\ UNCHANGED <<raw, decays, now>>
    BY DEF RecordFeedback
  <1>4. /\ row' \in Rows /\ Kept(row)' /\ actor' \in [Actors -> Acts] /\ ThreadsFit'
        /\ \A b \in Actors \ {"api"} : actor'[b] = actor[b]
    BY <1>1, <1>2, <1>3, FeedbackKept, SaveIs
  <1>5. /\ outbox' = [outbox EXCEPT ![i] = [outbox[i] EXCEPT !.answered = TRUE]]
        /\ outbox[i] \in Messages
    BY <1>1, <1>3
  <1>6. /\ [outbox[i] EXCEPT !.answered = TRUE] \in Messages
        /\ [outbox[i] EXCEPT !.answered = TRUE].at = outbox[i].at
        /\ [outbox[i] EXCEPT !.answered = TRUE].log = outbox[i].log
    BY <1>5 DEF Messages
  <1>7. /\ outbox' \in Seq(Messages) /\ DOMAIN outbox' = DOMAIN outbox
        /\ \A j \in DOMAIN outbox : outbox'[j].at = outbox[j].at /\ outbox'[j].log = outbox[j].log
    BY <1>1, <1>5, <1>6
  <1>8. \A j \in DOMAIN outbox' : Heeded(outbox'[j].at, outbox'[j].log)
    BY <1>1, <1>7, HeededIs
  <1>9. HoldsAreHeeded'
    BY <1>8 DEF HoldsAreHeeded, Heeded, Contacts, Refusals
  <1>10. NothingHalfDone'
    BY <1>1, <1>3, <1>4, NothingHalfDoneStays
  <1>. QED
    BY <1>1, <1>3, <1>4, <1>7, <1>9, <1>10, TurnsInvNext

LEMMA DecayStep ==
  ASSUME TurnsInv, LoadForDecay \/ SaveDecay
  PROVE  TurnsInv'
  <1>. USE ServersAreNoChats
  <1>1. /\ row \in Rows /\ Kept(row) /\ raw \in [Chats -> SUBSET {"user", "assistant"}]
        /\ outbox \in Seq(Messages) /\ actor \in [Actors -> Acts] /\ ThreadsFit
        /\ decays \in 0..MaxDecays /\ now \in 0..MaxTime /\ HoldsAreHeeded /\ NothingHalfDone
    BY TurnsInvIs
  <1>2. UNCHANGED <<raw, outbox, now>>
    BY DEF LoadForDecay, SaveDecay
  <1>3. HoldsAreHeeded'
    BY <1>1, <1>2 DEF HoldsAreHeeded
  <1>4. CASE LoadForDecay
    <2>. DEFINE x == [actor["worker"] EXCEPT !.pc = "decay", !.at = now, !.base = row]
    <2>1. x \in Acts /\ x.pc = "decay" /\ x.base = row
      BY <1>1 DEF Acts, Pcs
    <2>2. /\ actor' = [actor EXCEPT !["worker"] = x] /\ UNCHANGED row
          /\ decays' = decays + 1 /\ decays < MaxDecays
      BY <1>4 DEF LoadForDecay
    <2>. HIDE DEF x
    <2>3. Fits("worker", x)
      BY <1>1, <2>1 DEF Fits
    <2>4. /\ actor' \in [Actors -> Acts] /\ ThreadsFit'
          /\ \A b \in Actors \ {"worker"} : actor'[b] = actor[b]
      BY <1>1, <2>2, <2>3, ThreadsStay
    <2>5. decays' \in 0..MaxDecays /\ Kept(row)'
      BY <1>1, <2>2, Constants
    <2>6. NothingHalfDone'
      BY <1>1, <1>2, <2>4, NothingHalfDoneStays
    <2>. QED
      BY <1>1, <1>2, <1>3, <2>2, <2>4, <2>5, <2>6, TurnsInvNext
  <1>5. CASE SaveDecay
    <2>. DEFINE s == actor["worker"].base
    <2>1. s \in Rows /\ Kept(s)
      BY <1>1 DEF Acts, ThreadsFit, Fits
    <2>2. Save("worker", ApplyTimeDecay(s)) /\ UNCHANGED decays
      BY <1>5 DEF SaveDecay
    <2>3. ApplyTimeDecay(s) \in Rows /\ Kept(ApplyTimeDecay(s))
      BY <2>1, ReadyIs, ReadyKept DEF ApplyTimeDecay
    <2>4. /\ row' \in Rows /\ Kept(row)' /\ actor' \in [Actors -> Acts] /\ ThreadsFit'
          /\ \A b \in Actors \ {"worker"} : actor'[b] = actor[b]
      BY <2>2, <2>3, SaveIs
    <2>5. NothingHalfDone'
      BY <1>1, <1>2, <2>4, NothingHalfDoneStays
    <2>. QED
      BY <1>1, <1>2, <1>3, <2>2, <2>4, <2>5, TurnsInvNext
  <1>. QED
    BY <1>4, <1>5

LEMMA RollBackStep ==
  ASSUME TurnsInv, NEW a \in Actors, RollBack(a)
  PROVE  TurnsInv'
  <1>. USE ServersAreNoChats
  <1>. DEFINE x == IF a \in Chats THEN Over("failed") ELSE Idle
  <1>1. /\ row \in Rows /\ Kept(row) /\ raw \in [Chats -> SUBSET {"user", "assistant"}]
        /\ outbox \in Seq(Messages) /\ actor \in [Actors -> Acts] /\ ThreadsFit
        /\ decays \in 0..MaxDecays /\ now \in 0..MaxTime /\ HoldsAreHeeded /\ NothingHalfDone
    BY TurnsInvIs
  <1>2. /\ UNCHANGED <<row, raw, outbox, decays, now>> /\ actor[a].pc # "answered"
        /\ actor' = [actor EXCEPT ![a] = x]
    BY DEF RollBack
  <1>3. Fits(a, x) /\ x.pc # "answered"
    BY IdleFits, IdleIs DEF Pcs
  <1>. HIDE DEF x
  <1>4. /\ actor' \in [Actors -> Acts] /\ ThreadsFit'
        /\ actor'[a] = x /\ \A b \in Actors \ {a} : actor'[b] = actor[b]
    BY <1>1, <1>2, <1>3, ThreadsStay
  <1>5. NothingHalfDone'
    BY <1>1, <1>2, <1>3, <1>4, NothingHalfDoneStays
  <1>6. HoldsAreHeeded' /\ Kept(row)'
    BY <1>1, <1>2 DEF HoldsAreHeeded
  <1>. QED
    BY <1>1, <1>2, <1>4, <1>5, <1>6, TurnsInvNext

LEMMA ElseStep ==
  ASSUME TurnsInv, Tick \/ UNCHANGED vars
  PROVE  TurnsInv'
  <1>1. /\ row \in Rows /\ Kept(row) /\ raw \in [Chats -> SUBSET {"user", "assistant"}]
        /\ outbox \in Seq(Messages) /\ actor \in [Actors -> Acts] /\ ThreadsFit
        /\ decays \in 0..MaxDecays /\ now \in 0..MaxTime /\ HoldsAreHeeded /\ NothingHalfDone
    BY TurnsInvIs
  <1>2. UNCHANGED <<row, raw, outbox, actor, decays>>
    BY DEF Tick, vars
  <1>3. now' \in 0..MaxTime
    BY <1>1, Constants DEF Tick, vars
  <1>4. Kept(row)' /\ ThreadsFit' /\ HoldsAreHeeded' /\ NothingHalfDone'
    BY <1>1, <1>2 DEF ThreadsFit, HoldsAreHeeded, NothingHalfDone
  <1>. QED
    BY <1>1, <1>2, <1>3, <1>4, TurnsInvNext

LEMMA NextTurnsInv == ASSUME TurnsInv, [Next]_vars PROVE TurnsInv'
  BY TurnsStep, ProactiveStep, FeedbackStep, DecayStep, RollBackStep, ElseStep DEF Next

LEMMA InitTurnsInv == Init => TurnsInv
  <1>. SUFFICES ASSUME Init PROVE TurnsInv
    OBVIOUS
  <1>1. row \in Rows /\ Kept(row)
    BY FirstRowKept DEF Init
  <1>2. actor \in [Actors -> Acts] /\ ThreadsFit
    BY IdleIs, IdleFits DEF Init, ThreadsFit
  <1>3. outbox \in Seq(Messages) /\ DOMAIN outbox = {}
    BY DEF Init
  <1>4. decays \in 0..MaxDecays /\ now \in 0..MaxTime
    BY Constants DEF Init
  <1>5. raw \in [Chats -> SUBSET {"user", "assistant"}] /\ NothingHalfDone
    BY IdleIs, ServersAreNoChats DEF Init, NothingHalfDone
  <1>6. HoldsAreHeeded
    BY <1>3, HeededIs
  <1>. QED
    BY <1>1, <1>2, <1>3, <1>4, <1>5, <1>6, TurnsInvIs

THEOREM TurnsInvariance == Spec => []TurnsInv
  <1>. QED
    BY InitTurnsInv, NextTurnsInv, PTL DEF Spec

(* The row, every copy of it and every queued message have their types.     *)
THEOREM TypeCorrect == Spec => []TypeOK
  <1>1. TurnsInv => TypeOK
    BY DEF TurnsInv
  <1>. QED
    BY <1>1, TurnsInvariance, PTL

(* However turns, messages, answers and decays overwrite each other, the    *)
(* risk level of the row is the one its own turns ask for.                  *)
THEOREM RiskAgrees == Spec => []RiskFollowsTheTalk
  <1>1. TurnsInv => RiskFollowsTheTalk
    BY DEF TurnsInv, CopiesInv, Kept, RiskFollowsTheTalk
  <1>. QED
    BY <1>1, TurnsInvariance, PTL

(* A message of the companion's own respects the contacts, the refusals and *)
(* the crisis in the log of the copy it was decided on.                     *)
THEOREM HoldsHeeded == Spec => []HoldsAreHeeded
  <1>1. TurnsInv => HoldsAreHeeded
    BY DEF TurnsInv
  <1>. QED
    BY <1>1, TurnsInvariance, PTL

(* A turn is written whole or not at all.                                   *)
THEOREM TurnsAreWhole == Spec => []NothingHalfDone
  <1>1. TurnsInv => NothingHalfDone
    BY DEF TurnsInv
  <1>. QED
    BY <1>1, TurnsInvariance, PTL

-----------------------------------------------------------------------------
(* StagedPipeline: the pipeline the companion is trained with *)

(* ... and a first one.                                                     *)
LEMMA FirstExists ==
  ASSUME NEW n \in Nat, NEW S \in SUBSET (1..n), S # {}
  PROVE  \E m \in S : \A j \in S : m <= j
  <1>. DEFINE T == {n + 1 - i : i \in S}
  <1>1. T \in SUBSET (1..n) /\ T # {}
    <2>1. \A i \in S : n + 1 - i \in 1..n
      OBVIOUS
    <2>2. PICK i \in S : TRUE
      OBVIOUS
    <2>3. n + 1 - i \in T
      OBVIOUS
    <2>. QED
      BY <2>1, <2>3
  <1>2. PICK x \in T : \A y \in T : y <= x
    <2>. HIDE DEF T
    <2>. QED
      BY <1>1, LatestExists
  <1>3. PICK m \in S : x = n + 1 - m
    OBVIOUS
  <1>4. ASSUME NEW j \in S PROVE m <= j
    <2>1. n + 1 - j \in T
      OBVIOUS
    <2>2. n + 1 - j <= n + 1 - m
      BY <1>2, <1>3, <2>1
    <2>. QED
      BY <2>2
  <1>. QED
    BY <1>4

-----------------------------------------------------------------------------
(* Turns of a text: how speeches change when another quote is hers *)

(* The quotes of the chapter up to one, and the turns that start there.     *)
StartsTo(hers, g) == {s \in Starts(hers) : s <= g}

LEMMA StartsCounted ==
    ASSUME NEW hers \in SUBSET Groups, NEW g \in Groups
    PROVE  /\ IsFiniteSet(Starts(hers)) /\ Cardinality(Starts(hers)) \in 0..Quotes
           /\ IsFiniteSet(StartsTo(hers, g)) /\ StartsTo(hers, g) \subseteq Starts(hers)
           /\ TurnOf(hers, g) = Cardinality(StartsTo(hers, g))
           /\ TurnOf(hers, g) \in 0..Cardinality(Starts(hers))
  <1>1. IsFiniteSet(Groups) /\ Cardinality(Groups) = Quotes /\ Quotes \in Nat
    <2>1. Quotes \in Nat /\ 1 \in Int /\ Quotes \in Int
      BY BoundsAreNat DEF BoundsAreNat
    <2>2. IsFiniteSet(1..Quotes) /\ Cardinality(1..Quotes) = IF 1 > Quotes THEN 0
            ELSE Quotes - 1 + 1
      BY <2>1, FS_Interval
    <2>. QED
      BY <2>1, <2>2 DEF Groups
  <1>2. Starts(hers) \subseteq Groups
    BY DEF Starts
  <1>3. IsFiniteSet(Starts(hers)) /\ Cardinality(Starts(hers)) <= Quotes
    BY <1>1, <1>2, FS_Subset
  <1>4. StartsTo(hers, g) \subseteq Starts(hers)
    BY DEF StartsTo
  <1>5. /\ IsFiniteSet(StartsTo(hers, g))
        /\ Cardinality(StartsTo(hers, g)) <= Cardinality(Starts(hers))
    BY <1>3, <1>4, FS_Subset
  <1>6. Cardinality(StartsTo(hers, g)) \in Nat /\ Cardinality(Starts(hers)) \in Nat
    BY <1>3, <1>5, FS_CardinalityType
  <1>7. TurnOf(hers, g) = Cardinality(StartsTo(hers, g))
    BY DEF TurnOf, StartsTo
  <1>. QED
    BY <1>1, <1>3, <1>4, <1>5, <1>6, <1>7

(* Every quote of hers is in a turn of the list.                            *)
LEMMA TurnIsListed ==
    ASSUME NEW hers \in SUBSET Groups, NEW g \in hers
    PROVE  /\ TurnOf(hers, g) \in 1..Cardinality(Starts(hers))
           /\ g \in Speech(hers, TurnOf(hers, g))
  <1>1. PICK m \in hers : \A j \in hers : m <= j
    BY FirstExists, BoundsAreNat DEF Groups, BoundsAreNat
  <1>2. m \in StartsTo(hers, g)
    <2>1. m \in Int /\ ~(m - 1 \in hers)
      BY <1>1, BoundsAreNat DEF Groups, BoundsAreNat
    <2>. QED
      BY <1>1, <2>1 DEF StartsTo, Starts
  <1>3. TurnOf(hers, g) # 0
    BY <1>2, StartsCounted, FS_EmptySet
  <1>4. TurnOf(hers, g) \in 0..Cardinality(Starts(hers))
          /\ Cardinality(Starts(hers)) \in Nat
    BY StartsCounted
  <1>. QED
    BY <1>3, <1>4 DEF Speech

LEMMA ListIsTyped ==
    ASSUME NEW hers \in SUBSET Groups
    PROVE  /\ DOMAIN TurnsOf(hers) \subseteq Groups
           /\ TurnsOf(hers) \in [DOMAIN TurnsOf(hers)
                -> [speech : SUBSET Groups, beat : SUBSET Groups]]
           /\ \A k \in DOMAIN TurnsOf(hers) :
                TurnsOf(hers)[k].speech = Speech(hers, k)
  <1>1. DOMAIN TurnsOf(hers) = 1..Cardinality(Starts(hers))
    BY DEF TurnsOf
  <1>2. DOMAIN TurnsOf(hers) \subseteq Groups
    <2>1. CASE Groups = {}
      <3>1. Starts(hers) = {}
        BY <2>1 DEF Starts
      <3>. QED
        BY <1>1, <3>1, FS_EmptySet
    <2>2. CASE Groups # {}
      <3>1. PICK g \in Groups : TRUE
        BY <2>2
      <3>2. Cardinality(Starts(hers)) \in 0..Quotes
        BY <3>1, StartsCounted
      <3>. QED
        BY <1>1, <3>2, BoundsAreNat DEF Groups, BoundsAreNat
    <2>. QED
      BY <2>1, <2>2
  <1>3. \A k : Speech(hers, k) \in SUBSET Groups
          /\ Beat(hers, k) \in SUBSET Groups
    BY DEF Speech, Beat
  <1>. QED
    BY <1>1, <1>2, <1>3 DEF TurnsOf

(* The turns tell which quotes they were built from.                        *)
LEMMA ListTellsHers ==
    ASSUME NEW hers \in SUBSET Groups
    PROVE  UNION {TurnsOf(hers)[k].speech : k \in DOMAIN TurnsOf(hers)} = hers
  <1>1. \A k \in DOMAIN TurnsOf(hers) : TurnsOf(hers)[k].speech \subseteq hers
    BY ListIsTyped DEF Speech
  <1>2. ASSUME NEW g \in hers
        PROVE  \E k \in DOMAIN TurnsOf(hers) : g \in TurnsOf(hers)[k].speech
    <2>1. TurnOf(hers, g) \in DOMAIN TurnsOf(hers)
      BY TurnIsListed DEF TurnsOf
    <2>. QED
      BY <2>1, TurnIsListed, ListIsTyped
  <1>. QED
    BY <1>1, <1>2

(* Quotes of one turn have no start between them.                           *)
LEMMA NoStartBetween ==
    ASSUME NEW hers \in SUBSET Groups, NEW h \in Groups,
           NEW g \in Groups, h <= g
    PROVE  TurnOf(hers, h) = TurnOf(hers, g) <=> \A s \in Starts(hers) : s <= g
             => s <= h
  <1>1. h \in Nat /\ g \in Nat /\ \A s \in Starts(hers) : s \in Nat
    BY BoundsAreNat DEF Starts, Groups, BoundsAreNat
  <1>2. StartsTo(hers, h) \in SUBSET StartsTo(hers, g)
    BY <1>1 DEF StartsTo
  <1>3. TurnOf(hers, h) = TurnOf(hers, g) <=> StartsTo(hers, h) = StartsTo(hers, g)
    <2>1. /\ TurnOf(hers, h) = Cardinality(StartsTo(hers, h))
          /\ TurnOf(hers, g) = Cardinality(StartsTo(hers, g))
          /\ IsFiniteSet(StartsTo(hers, g))
      BY StartsCounted
    <2>2. Cardinality(StartsTo(hers, h)) = Cardinality(StartsTo(hers, g))
            => StartsTo(hers, h) = StartsTo(hers, g)
      BY <1>2, <2>1, FS_Subset
    <2>. QED
      BY <2>1, <2>2
  <1>. QED
    BY <1>1, <1>3 DEF StartsTo

(* In one turn of hers, every quote is hers and hangs on the one before.    *)
LEMMA TurnIsWhole ==
    ASSUME NEW hers \in SUBSET Groups, NEW h \in hers, NEW g \in hers,
           h <= g,
           TurnOf(hers, h) = TurnOf(hers, g), NEW x \in Groups, h < x, x <= g
    PROVE  x \in hers /\ x - 1 \in hers /\ x - 1 \in joined
  <1>0. \A y \in Groups : y \in Nat
    BY BoundsAreNat DEF Groups, BoundsAreNat
  <1>1. ASSUME NEW y \in hers, h < y, y <= g
        PROVE  y - 1 \in hers /\ y - 1 \in joined
    <2>1. \A s \in Starts(hers) : s <= g => s <= h
      BY NoStartBetween
    <2>2. y \notin Starts(hers)
      BY <1>0, <1>1, <2>1
    <2>. QED
      BY <2>2 DEF Starts
  <1>. DEFINE Gap == {y \in Groups : h < y /\ y <= g /\ y \notin hers}
  <1>2. Gap = {}
    <2>1. SUFFICES ASSUME Gap # {} PROVE FALSE
      OBVIOUS
    <2>2. PICK m \in Gap : \A y \in Gap : y <= m
      <3>1. Gap \in SUBSET (1..Quotes) /\ Quotes \in Nat
        BY BoundsAreNat DEF Groups, BoundsAreNat
      <3>. HIDE DEF Gap
      <3>. QED
        BY <2>1, <3>1, LatestExists
    <2>3. m + 1 \in Groups /\ h < m + 1 /\ m + 1 <= g
      BY <1>0, BoundsAreNat DEF Groups, BoundsAreNat
    <2>4. m + 1 \notin Gap
      BY <1>0, <2>2
    <2>5. m + 1 \in hers
      BY <2>3, <2>4
    <2>6. (m + 1) - 1 \in hers
      BY <1>1, <2>3, <2>5
    <2>. QED
      BY <1>0, <2>6
  <1>. QED
    BY <1>1, <1>2

(* Quotes that become hers behind a speech do not move it: it has the same   *)
(* number and the same quotes as before.                                    *)
LEMMA SpeechStays ==
    ASSUME NEW T \in SUBSET Groups, NEW H \in SUBSET T, NEW k,
           Speech(T, k) # {}, \A g \in T \ H : \A h \in Speech(T, k) : h < g
    PROVE  Speech(H, k) = Speech(T, k)
  <1>0. Quotes \in Nat /\ \A y \in Groups : y \in Nat
    BY BoundsAreNat DEF Groups, BoundsAreNat
  <1>1. ASSUME NEW h \in Speech(T, k), NEW g \in Groups, g <= h
        PROVE  TurnOf(H, g) = TurnOf(T, g)
    <2>1. \A y \in T : y <= g => y \in H
      BY <1>0, <1>1 DEF Speech
    <2>2. ASSUME NEW s \in Groups, s <= g PROVE s \in Starts(H) <=> s \in Starts(T)
      <3>1. s \in H <=> s \in T
        BY <2>1, <2>2
      <3>2. s - 1 \in H <=> s - 1 \in T
        BY <1>0, <2>1, <2>2
      <3>. QED
        BY <3>1, <3>2 DEF Starts
    <2>3. StartsTo(H, g) = StartsTo(T, g)
      BY <2>2 DEF StartsTo, Starts
    <2>. QED
      BY <2>3, StartsCounted
  <1>2. ASSUME NEW h \in Speech(T, k) PROVE h \in Speech(H, k)
    <2>1. h \in T /\ TurnOf(T, h) = k
      BY DEF Speech
    <2>2. h \in H
      BY <1>0, <2>1
    <2>. QED
      BY <1>0, <1>1, <2>1, <2>2 DEF Speech
  <1>3. ASSUME NEW g \in Speech(H, k) PROVE g \in Speech(T, k)
    <2>1. g \in H /\ TurnOf(H, g) = k
      BY DEF Speech
    <2>2. PICK h \in Speech(T, k) : TRUE
      OBVIOUS
    <2>3. h \in H /\ TurnOf(H, h) = k /\ h \in T /\ TurnOf(T, h) = k
      BY <1>2 DEF Speech
    <2>4. CASE g <= h
      BY <1>1, <2>1, <2>4 DEF Speech
    <2>5. CASE h <= g
      <3>1. ASSUME NEW s \in Starts(T), s <= g PROVE s <= h
        <4>1. SUFFICES ASSUME h < s PROVE FALSE
          BY <1>0, <2>3 DEF Starts
        <4>2. s - 1 \in H /\ s - 1 \in joined
          BY <2>1, <2>3, <2>5, <3>1, <4>1, TurnIsWhole DEF Starts
        <4>. QED
          BY <4>2 DEF Starts
      <3>2. TurnOf(T, h) = TurnOf(T, g)
        BY <2>1, <2>3, <2>5, <3>1, NoStartBetween
      <3>. QED
        BY <2>1, <2>3, <3>2 DEF Speech
    <2>. QED
      BY <1>0, <2>1, <2>3, <2>4, <2>5
  <1>. QED
    BY <1>2, <1>3

-----------------------------------------------------------------------------
(* What a run of the pipeline keeps *)

(* A row that is there holds an outcome of its stage.                       *)
RowOf(s) == {r \in Row : /\ r.state = "none" => r = NoRow
                         /\ r.state = "unusable" => s \in {"user", "assistant"}}
MessageType == [turn : Groups, speech : SUBSET Groups, source : SUBSET Groups,
                parts : [Contexts -> SUBSET Groups]]

CallType == [pc : {"idle", "calling", "raised", "done"}, rows : [Groups -> Row]]
PipeTypes ==
    /\ joined \in SUBSET Groups /\ late \in SUBSET Groups
    /\ file \in [Stages -> [Groups -> Row]]
    /\ phase \in {"idle", "speaker", "contexts", "assembled", "done", "failed"}
    /\ carryOn \in BOOLEAN
    /\ call \in [Stages -> CallType]
    /\ \A s \in Stages, id \in Groups : file[s][id] \in RowOf(s)
         /\ call[s].rows[id] \in RowOf(s)
    /\ \A s \in Stages : call[s].pc # "idle" =>
          phase = IF s = "speaker" THEN "speaker" ELSE "contexts"

PipeCounts == runs \in 0..MaxRuns /\ faults \in 0..MaxFaults /\ crashes \in 0..MaxCrashes

(* A call has in memory what its file has, as far as it is asked for; a call *)
(* that stops at failures has none; when it is done, the file is what it has.*)
CallOf(s) ==
    /\ \A id \in Groups : id \notin Asked(s) => call[s].rows[id] = NoRow
    /\ \A id \in Asked(s) : Successful(file[s][id]) => call[s].rows[id] = file[s][id]
    /\ (call[s].pc # "raised" /\ ~Continues(s)) =>
          \A id \in Groups : call[s].rows[id].state # "failed"
    /\ call[s].pc = "done" => /\ file[s] = call[s].rows
                              /\ \A id \in Asked(s) : call[s].rows[id] # NoRow
CallsInv == \A s \in Stages : call[s].pc # "idle" => CallOf(s)

(* Once the contexts are asked for, the turns are those of all attributions; *)
(* once the messages are assembled, every context of a turn has its row.     *)
RunInv ==
    /\ phase \in {"contexts", "assembled", "done"} =>
          /\ turns = TurnsOf(Hers)
          /\ ~carryOn => \A g \in Groups : Successful(file["speaker"][g])
    /\ phase \in {"assembled", "done"} =>
          /\ \A s \in Contexts, k \in Groups :
                IF k \in Asks(turns) THEN Successful(file[s][k])
                  ELSE file[s][k] = NoRow
          /\ draft = {Message(k) : k \in {i \in DOMAIN turns : Drafted(i)}}

(* A context was asked for the speech its turn had when fewer quotes were    *)
(* hers; those that came since are late.                                     *)
FitsTurn(reply, k, T) == Successful(reply) =>
    \E H \in SUBSET T : reply.about = Speech(H, k) /\ T \ H \subseteq late
FitFor(T) == \A s \in Contexts, k \in Groups :
    /\ FitsTurn(file[s][k], k, T)
    /\ call[s].pc # "idle" => FitsTurn(call[s].rows[k], k, T)
PipeTurns == \E T \in SUBSET Hers : turns = TurnsOf(T) /\ FitFor(T)

PipeInv == PipeTypes /\ PipeCounts /\ CallsInv /\ RunInv /\ PipeTurns

LEMMA RowKinds ==
    /\ \A s : NoRow \in RowOf(s) /\ Failed \in RowOf(s)
    /\ ~Successful(NoRow) /\ ~Successful(Failed) /\ Failed # NoRow
         /\ NoRow.state # "failed"
    /\ \A s, r : r \in RowOf(s) =>
          /\ Successful(r) => r # NoRow /\ r.state # "failed"
          /\ (r # NoRow /\ r.state # "failed") => Successful(r)
  BY DEF RowOf, Row, NoRow, Failed, Successful

LEMMA StagesAre == Contexts \subseteq Stages /\ "speaker" \in Stages
                     /\ "speaker" \notin Contexts
                   /\ \A s \in Stages : s = "speaker" \/ s \in Contexts
  BY DEF Stages, Contexts

LEMMA InitPipe == ASSUME PipelineInit PROVE PipeInv
  <1>1. PipeTypes
    BY RowKinds
       DEF PipelineInit, PipeTypes, NoRows, NoCall, Row, RowOf, NoRow, CallType
  <1>2. PipeCounts
    BY BoundsAreNat DEF PipelineInit, PipeCounts, BoundsAreNat
  <1>3. CallsInv
    BY DEF PipelineInit, CallsInv, NoCall
  <1>4. RunInv
    BY DEF PipelineInit, RunInv
  <1>5. PipeTurns
    <2>1. turns = TurnsOf({})
      <3>1. Starts({}) = {}
        BY DEF Starts
      <3>2. 1..Cardinality(Starts({})) = {}
        BY <3>1, FS_EmptySet
      <3>. QED
        BY <3>2 DEF PipelineInit, TurnsOf
    <2>2. FitFor({})
      BY RowKinds, StagesAre DEF PipelineInit, FitFor, FitsTurn, NoRows, NoCall
    <2>. QED
      BY <2>1, <2>2 DEF PipeTurns
  <1>. QED
    BY <1>1, <1>2, <1>3, <1>4, <1>5 DEF PipeInv

(* A call that writes its file: what was there stays, and what comes to it   *)
(* was asked for the turn's speech (call_prompt_requests).                  *)
Writes(s, pc, rows) ==
    /\ call[s].pc = "calling" /\ pc \in {"calling", "raised", "done"}
    /\ rows \in [Groups -> RowOf(s)]
    /\ file' = [file EXCEPT ![s] = rows]
    /\ call' = [call EXCEPT ![s] = [pc |-> pc, rows |-> rows]]
    /\ UNCHANGED <<joined, phase, carryOn, turns, draft, late>>
    /\ \A id \in Groups : id \notin Asked(s) => rows[id] = NoRow
    /\ \A id \in Groups : call[s].rows[id] # NoRow => rows[id] = call[s].rows[id]
    /\ (pc # "raised" /\ ~Continues(s)) => \A id \in Groups : rows[id].state # "failed"
    /\ pc = "done" => \A id \in Asked(s) : rows[id] # NoRow
    /\ s \in Contexts => \A id \in Groups :
          (Successful(rows[id]) /\ rows[id] # call[s].rows[id]) =>
             rows[id].about = turns[id].speech /\ id \in DOMAIN turns

LEMMA AskedIsTyped ==
    ASSUME PipeInv, NEW s \in Stages
    PROVE  Asked(s) \subseteq Groups
  BY ListIsTyped DEF PipeInv, PipeTurns, Hers, Asked, Asks

LEMMA FileIsKept ==
    ASSUME PipeInv, NEW s \in Stages, NEW pc, NEW rows, Writes(s, pc, rows),
           NEW id \in Groups,
           Successful(file[s][id])
    PROVE  (id \in Asked(s) /\ rows[id] = file[s][id])
             \/ (id \notin Asked(s) /\ rows[id] = NoRow)
  <1>1. CallOf(s)
    BY DEF Writes, PipeInv, CallsInv
  <1>2. CASE id \in Asked(s)
    <2>1. call[s].rows[id] = file[s][id]
      BY <1>1, <1>2 DEF CallOf
    <2>2. file[s][id] # NoRow
      BY RowKinds
    <2>. QED
      BY <1>2, <2>1, <2>2 DEF Writes
  <1>3. CASE id \notin Asked(s)
    BY <1>3 DEF Writes
  <1>. QED
    BY <1>2, <1>3

LEMMA HersGrows ==
    ASSUME PipeInv, NEW s \in Stages, NEW pc, NEW rows, Writes(s, pc, rows)
    PROVE  /\ Hers \subseteq Hers'
           /\ s \in Contexts => Hers' = Hers /\ file'["speaker"] = file["speaker"]
  <1>1. file'[s] = rows /\ \A r \in Stages : r # s => file'[r] = file[r]
    BY DEF Writes, PipeInv, PipeTypes
  <1>2. CASE s \in Contexts
    BY <1>1, <1>2, StagesAre DEF Hers
  <1>3. CASE s = "speaker"
    <2>1. ASSUME NEW g \in Hers PROVE g \in Hers'
      <3>1. g \in Groups /\ Successful(file[s][g]) /\ g \in Asked(s)
        BY <1>3 DEF Hers, Successful, Asked
      <3>2. file'["speaker"][g] = file["speaker"][g]
        BY <1>1, <1>3, <3>1, FileIsKept
      <3>. QED
        BY <3>2 DEF Hers
    <2>. QED
      BY <1>3, <2>1, StagesAre
  <1>. QED
    BY <1>2, <1>3, StagesAre

(* Rows fit as before when more quotes are hers and those are late.         *)
LEMMA FitsStill ==
    ASSUME joined' = joined, NEW T, NEW U, T \subseteq U, late \cup (U \ T) \subseteq late',
           NEW r, NEW k
    PROVE  /\ FitsTurn(file'[r][k], k, T) => FitsTurn(file[r][k], k, U)'
           /\ FitsTurn(call'[r].rows[k], k, T) => FitsTurn(call[r].rows[k], k, U)'
  <1>1. ASSUME NEW reply, FitsTurn(reply, k, T), Successful(reply)
        PROVE  \E H \in SUBSET U : reply.about = Speech(H, k)' /\ U \ H \subseteq late'
    <2>1. PICK H \in SUBSET T : reply.about = Speech(H, k) /\ T \ H \subseteq late
      BY <1>1 DEF FitsTurn
    <2>2. Speech(H, k)' = Speech(H, k)
      BY DEF Speech, TurnOf, Starts
    <2>. QED
      BY <2>1, <2>2
  <1>. QED
    BY <1>1 DEF FitsTurn, Successful

LEMMA WritesHolds ==
    ASSUME PipeInv, NEW s \in Stages, NEW pc, NEW rows, Writes(s, pc, rows)
    PROVE  PipeTypes' /\ CallsInv' /\ RunInv' /\ PipeTurns'
  <1>1. /\ file'[s] = rows /\ \A r \in Stages : r # s => file'[r] = file[r]
        /\ call'[s] = [pc |-> pc, rows |-> rows] /\ \A r \in Stages : r # s =>
             call'[r] = call[r]
    BY DEF Writes, PipeInv, PipeTypes
  <1>2. PipeTypes'
    <2>1. rows \in [Groups -> Row] /\ \A id \in Groups : rows[id] \in RowOf(s)
      BY DEF Writes, RowOf
    <2>2. file' \in [Stages -> [Groups -> Row]]
      BY <2>1 DEF Writes, PipeInv, PipeTypes
    <2>3. call' \in [Stages -> CallType]
      BY <2>1 DEF Writes, PipeInv, PipeTypes, CallType
    <2>4. \A r \in Stages, id \in Groups : file'[r][id] \in RowOf(r)
            /\ call'[r].rows[id] \in RowOf(r)
      BY <1>1, <2>1 DEF PipeInv, PipeTypes
    <2>5. \A r \in Stages : call'[r].pc # "idle" =>
             phase' = IF r = "speaker" THEN "speaker" ELSE "contexts"
      BY <1>1 DEF Writes, PipeInv, PipeTypes
    <2>. QED
      BY <2>2, <2>3, <2>4, <2>5 DEF Writes, PipeInv, PipeTypes, RowOf
  <1>3. CallsInv'
    <2>1. \A r \in Stages : Asked(r)' = Asked(r)
            /\ Continues(r)' = Continues(r)
      BY DEF Asked, Asks, Continues, Writes
    <2>2. CallOf(s)'
      <3>1. \A id \in Asked(s)' : call'[s].rows[id] = file'[s][id]
        BY <1>1
      <3>. QED
        BY <1>1, <2>1, <3>1 DEF CallOf, Writes
    <2>3. ASSUME NEW r \in Stages, r # s, call'[r].pc # "idle" PROVE CallOf(r)'
      <3>1. CallOf(r)
        BY <1>1, <2>3 DEF PipeInv, CallsInv
      <3>. QED
        BY <1>1, <2>1, <2>3, <3>1 DEF CallOf
    <2>. QED
      BY <2>2, <2>3 DEF CallsInv
  <1>4. RunInv'
    <2>1. phase = IF s = "speaker" THEN "speaker" ELSE "contexts"
      BY DEF Writes, PipeInv, PipeTypes
    <2>2. CASE s = "speaker"
      BY <2>1, <2>2 DEF RunInv, Writes
    <2>3. CASE s # "speaker"
      <3>1. Hers' = Hers /\ file'["speaker"] = file["speaker"]
        BY <2>3, StagesAre, HersGrows
      <3>2. /\ turns = TurnsOf(Hers)
            /\ ~carryOn => \A g \in Groups : Successful(file["speaker"][g])
        BY <2>1, <2>3 DEF PipeInv, RunInv
      <3>3. turns' = TurnsOf(Hers')
        BY <3>1, <3>2 DEF Writes
      <3>4. TurnsOf(Hers)' = TurnsOf(Hers')
        BY DEF Writes, TurnsOf, Speech, Beat, TurnOf, Starts
      <3>5. ~carryOn' => \A g \in Groups : Successful(file'["speaker"][g])
        BY <3>1, <3>2 DEF Writes
      <3>6. phase' = "contexts"
        BY <2>1, <2>3 DEF Writes
      <3>. QED
        BY <3>3, <3>4, <3>5, <3>6 DEF RunInv
    <2>. QED
      BY <2>2, <2>3
  <1>5. PipeTurns'
    <2>1. PICK T \in SUBSET Hers : turns = TurnsOf(T) /\ FitFor(T)
      BY DEF PipeInv, PipeTurns
    <2>2. T \in SUBSET Hers'
      BY HersGrows
    <2>3. turns' = TurnsOf(T)'
      BY <2>1 DEF Writes, TurnsOf, Speech, Beat, TurnOf, Starts
    <2>5. ASSUME s \in Contexts, NEW k \in Groups PROVE FitsTurn(rows[k], k, T)
      <3>1. CASE rows[k] = call[s].rows[k]
        BY <2>1, <2>5, <3>1 DEF Writes, FitFor
      <3>2. CASE ~Successful(rows[k])
        BY <3>2 DEF FitsTurn
      <3>3. CASE Successful(rows[k]) /\ rows[k] # call[s].rows[k]
        <4>1. rows[k].about = turns[k].speech /\ k \in DOMAIN turns
          BY <2>5, <3>3 DEF Writes
        <4>2. rows[k].about = Speech(T, k) /\ T \in SUBSET Groups
          BY <2>1, <4>1, ListIsTyped DEF Hers
        <4>3. T \in SUBSET T /\ T \ T \subseteq late
          OBVIOUS
        <4>. QED
          BY <4>2, <4>3 DEF FitsTurn
      <3>. QED
        BY <3>1, <3>2, <3>3
    <2>6. ASSUME NEW r \in Contexts, NEW k \in Groups
          PROVE  FitsTurn(file'[r][k], k, T) /\ (call'[r].pc # "idle" =>
                   FitsTurn(call'[r].rows[k], k, T))
      <3>1. CASE r = s
        BY <1>1, <2>5, <3>1
      <3>2. CASE r # s
        BY <1>1, <2>1, <3>2, StagesAre DEF FitFor
      <3>. QED
        BY <3>1, <3>2
    <2>7. FitFor(T)'
      <3>1. joined' = joined /\ late' = late /\ T \subseteq T
        BY DEF Writes
      <3>2. ASSUME NEW r \in Contexts, NEW k \in Groups
            PROVE  FitsTurn(file[r][k], k, T)'
                     /\ (call'[r].pc # "idle" => FitsTurn(call[r].rows[k], k, T)')
        BY <2>6, <3>1, FitsStill
      <3>. QED
        BY <3>2 DEF FitFor
    <2>. QED
      BY <2>2, <2>3, <2>7 DEF PipeTurns
  <1>. QED
    BY <1>2, <1>3, <1>4, <1>5

LEMMA AnswerHolds ==
    ASSUME PipeInv, NEW s \in Stages, NEW id \in Groups,
           Answer(s, id)
    PROVE  PipeInv' /\ \E pc, rows : Writes(s, pc, rows)
  <1>1. PICK reply \in Outcomes(s, id) :
          LET rows == [call[s].rows EXCEPT ![id] = reply]
          IN  /\ faults' = faults + (IF reply.state = "ok" THEN 0 ELSE 1)
              /\ faults' <= MaxFaults
              /\ file' = [file EXCEPT ![s] = rows]
              /\ call' = [call EXCEPT ![s] =
                    [pc |-> IF reply.state = "failed" /\ ~Continues(s) THEN "raised"
                      ELSE "calling",
                     rows |-> rows]]
    BY DEF Answer, Slot
  <1>2. PICK rows : rows = [call[s].rows EXCEPT ![id] = reply]
    OBVIOUS
  <1>3. PICK pc : pc = IF reply.state = "failed" /\ ~Continues(s) THEN "raised" ELSE "calling"
    OBVIOUS
  <1>4. /\ call[s].pc = "calling" /\ id \in Asked(s) /\ call[s].rows[id] = NoRow
        /\ UNCHANGED <<joined, phase, carryOn, turns, draft, trainable, late, runs, crashes>>
    BY DEF Answer
  <1>5. CallOf(s) /\ call[s].rows \in [Groups -> Row] /\ \A i \in Groups :
          call[s].rows[i] \in RowOf(s)
    BY <1>4 DEF PipeInv, PipeTypes, CallsInv, CallType
  <1>6. s \in Contexts => id \in DOMAIN turns /\ turns[id].speech \in SUBSET Groups
                          /\ turns[id].beat \in SUBSET Groups
    <2>1. PICK T \in SUBSET Groups : turns = TurnsOf(T)
      BY DEF PipeInv, PipeTurns, Hers
    <2>. QED
      BY <1>4, <2>1, ListIsTyped, StagesAre DEF Asked, Asks
  <1>7. /\ reply \in RowOf(s) /\ reply.state # "none"
        /\ s \in Contexts /\ reply.state # "failed" => reply.about = turns[id].speech
    <2>1. CASE reply = Failed
      BY <2>1, RowKinds DEF Failed, NoRow
    <2>2. CASE reply # Failed /\ s = "speaker"
      <3>1. \E hers \in {{}, {id}} : reply = [state |-> "ok", about |-> hers, seen |-> {id}]
        BY <1>1, <2>2 DEF Outcomes, Request
      <3>. QED
        BY <2>2, <3>1, StagesAre DEF RowOf, Row
    <2>3. CASE reply # Failed /\ s \in Contexts
      <3>1. \E st \in IF s = "system" THEN {"ok"} ELSE {"ok", "unusable"} :
               reply = [state |-> st, about |-> turns[id].speech, seen |-> turns[id].beat]
        BY <1>1, <2>3, StagesAre DEF Outcomes, Request
      <3>2. PICK st \in {"ok", "unusable"} :
               /\ reply = [state |-> st, about |-> turns[id].speech, seen |-> turns[id].beat]
               /\ st = "unusable" => s # "system"
        BY <3>1
      <3>. QED
        BY <1>6, <2>3, <3>2 DEF RowOf, Row, Contexts
    <2>. QED
      BY <2>1, <2>2, <2>3, StagesAre
  <1>8. \A i \in Groups : rows[i] = IF i = id THEN reply ELSE call[s].rows[i]
    BY <1>2, <1>5
  <1>9. rows \in [Groups -> RowOf(s)]
    BY <1>2, <1>5, <1>7
  <1>10. \A i \in Groups : i \notin Asked(s) => rows[i] = NoRow
    BY <1>4, <1>5, <1>8 DEF CallOf
  <1>11. \A i \in Groups : call[s].rows[i] # NoRow => rows[i] = call[s].rows[i]
    BY <1>4, <1>8
  <1>12. (pc # "raised" /\ ~Continues(s)) => \A i \in Groups : rows[i].state # "failed"
    BY <1>3, <1>4, <1>5, <1>8 DEF CallOf
  <1>13. ASSUME s \in Contexts, NEW i \in Groups, rows[i] # call[s].rows[i]
         PROVE  Successful(rows[i]) => rows[i].about = turns[i].speech /\ i \in DOMAIN turns
    BY <1>6, <1>7, <1>8, <1>13, RowKinds
  <1>14. pc \in {"calling", "raised"}
    BY <1>3
  <1>15. Writes(s, pc, rows)
    BY <1>1, <1>2, <1>3, <1>4, <1>9, <1>10, <1>11, <1>12, <1>13, <1>14 DEF Writes
  <1>16. faults' \in 0..MaxFaults
    BY <1>1, BoundsAreNat DEF PipeInv, PipeCounts, BoundsAreNat
  <1>17. PipeCounts'
    BY <1>4, <1>16 DEF PipeInv, PipeCounts
  <1>. QED
    BY <1>15, <1>17, WritesHolds DEF PipeInv

LEMMA FinishHolds ==
    ASSUME PipeInv, NEW s \in Stages, Finish(s)
    PROVE  PipeInv' /\ \E pc, rows : Writes(s, pc, rows)
  <1>1. PICK rows : rows = call[s].rows
    OBVIOUS
  <1>2. CallOf(s) /\ rows \in [Groups -> RowOf(s)]
    BY <1>1 DEF Finish, PipeInv, PipeTypes, CallsInv, CallType
  <1>3. call' = [call EXCEPT ![s] = [pc |-> "done", rows |-> rows]]
    <2>1. call[s] \in CallType
      BY DEF PipeInv, PipeTypes
    <2>2. [call[s] EXCEPT !.pc = "done"] = [pc |-> "done", rows |-> call[s].rows]
      BY <2>1 DEF CallType
    <2>3. call' = [call EXCEPT ![s] = [call[s] EXCEPT !.pc = "done"]]
      BY DEF Finish
    <2>. QED
      BY <1>1, <2>2, <2>3
  <1>4. Writes(s, "done", rows)
    BY <1>1, <1>2, <1>3 DEF Finish, Writes, CallOf
  <1>5. PipeCounts'
    BY DEF Finish, PipeInv, PipeCounts
  <1>. QED
    BY <1>4, <1>5, WritesHolds DEF PipeInv

(* A call that starts has what its file has of what it is asked for.        *)
LEMMA BegunIs ==
    ASSUME PipeInv, NEW s \in Stages, NEW ids
    PROVE  /\ Begun(s, ids).pc = "calling"
                /\ Begun(s, ids).rows \in [Groups -> RowOf(s)]
           /\ \A id \in Groups : Begun(s, ids).rows[id] =
                 IF id \in ids /\ Successful(file[s][id]) THEN file[s][id] ELSE NoRow
           /\ Begun(s, ids) \in CallType
  <1>1. \A id \in Groups : file[s][id] \in RowOf(s)
    BY DEF PipeInv, PipeTypes
  <1>2. Begun(s, ids).rows \in [Groups -> RowOf(s)]
    BY <1>1, RowKinds DEF Begun
  <1>. QED
    BY <1>2 DEF Begun, RowOf, CallType

LEMMA StartHolds == ASSUME PipeInv, StartRun PROVE PipeInv'
  <1>1. /\ call' = [call EXCEPT !["speaker"] = Begun("speaker", Groups)]
        /\ UNCHANGED <<joined, file, turns, draft, trainable, late, faults, crashes>>
        /\ runs < MaxRuns /\ runs' = runs + 1 /\ phase' = "speaker" /\ carryOn' \in BOOLEAN
    BY DEF StartRun
  <1>2. \A s \in Contexts : call[s].pc = "idle" /\ call'[s] = call[s]
    BY <1>1, StagesAre DEF StartRun, PipeInv, PipeTypes
  <1>3. call'["speaker"] = Begun("speaker", Groups)
    BY <1>1, StagesAre DEF PipeInv, PipeTypes
  <1>4. PipeTypes'
    <2>1. call' \in [Stages -> CallType]
      BY <1>1, BegunIs, StagesAre DEF PipeInv, PipeTypes
    <2>2. \A s \in Stages, id \in Groups : file'[s][id] \in RowOf(s)
            /\ call'[s].rows[id] \in RowOf(s)
      BY <1>1, <1>2, <1>3, BegunIs, StagesAre DEF PipeInv, PipeTypes
    <2>3. \A s \in Stages : call'[s].pc # "idle" => phase' = IF s = "speaker" THEN "speaker"
            ELSE "contexts"
      BY <1>1, <1>2, StagesAre
    <2>. QED
      BY <1>1, <2>1, <2>2, <2>3 DEF PipeInv, PipeTypes, RowOf
  <1>5. PipeCounts'
    BY <1>1, BoundsAreNat DEF PipeInv, PipeCounts, BoundsAreNat
  <1>6. CallsInv'
    <2>1. CallOf("speaker")'
      BY <1>1, <1>3, BegunIs, StagesAre, RowKinds DEF CallOf, Asked, Successful
    <2>. QED
      BY <1>2, <2>1, StagesAre DEF CallsInv
  <1>7. RunInv'
    BY <1>1 DEF RunInv
  <1>8. PipeTurns'
    <2>1. PICK T \in SUBSET Hers : turns = TurnsOf(T) /\ FitFor(T)
      BY DEF PipeInv, PipeTurns
    <2>2. T \in SUBSET Hers'
      BY <1>1 DEF Hers
    <2>3. turns' = TurnsOf(T)'
      BY <1>1, <2>1 DEF TurnsOf, Speech, Beat, TurnOf, Starts
    <2>4. joined' = joined /\ late' = late /\ T \subseteq T
      BY <1>1
    <2>5. ASSUME NEW r \in Contexts, NEW k \in Groups PROVE FitsTurn(file[r][k], k, T)'
      BY <1>1, <2>1, <2>4, FitsStill DEF FitFor
    <2>6. FitFor(T)'
      BY <1>2, <2>5 DEF FitFor
    <2>. QED
      BY <2>2, <2>3, <2>6 DEF PipeTurns
  <1>. QED
    BY <1>4, <1>5, <1>6, <1>7, <1>8 DEF PipeInv

LEMMA AnchorHolds == ASSUME PipeInv, Anchor PROVE PipeInv'
  <1>1. /\ phase = "speaker" /\ call["speaker"].pc = "done" /\ phase' = "contexts"
        /\ turns' = TurnsOf(Hers)
        /\ late' = IF \E s \in Contexts, k \in Groups : Successful(file[s][k])
                   THEN late \cup (Hers \ UNION {turns[k].speech : k \in DOMAIN turns}) ELSE {}
        /\ call' = [s \in Stages |-> IF s \in Contexts
             THEN Begun(s, Asks(turns')) ELSE NoCall]
        /\ UNCHANGED <<joined, file, carryOn, draft, trainable, runs, faults, crashes>>
    BY DEF Anchor
  <1>2. call'["speaker"] = NoCall /\ \A s \in Contexts :
          call'[s] = Begun(s, Asks(turns'))
    BY <1>1, StagesAre
  <1>3. NoCall \in CallType
        /\ NoCall.pc = "idle" /\ \A s \in Stages, id \in Groups :
             NoCall.rows[id] \in RowOf(s)
    BY RowKinds DEF NoCall, NoRows, RowOf, Row, NoRow, CallType
  <1>4. PipeTypes'
    <2>1. call' \in [Stages -> CallType]
      BY <1>1, <1>3, BegunIs, StagesAre
    <2>2. \A s \in Stages, id \in Groups : file'[s][id] \in RowOf(s)
            /\ call'[s].rows[id] \in RowOf(s)
      BY <1>1, <1>2, <1>3, BegunIs, StagesAre DEF PipeInv, PipeTypes
    <2>3. \A s \in Stages : call'[s].pc # "idle" => phase' = IF s = "speaker" THEN "speaker"
            ELSE "contexts"
      BY <1>1, <1>2, <1>3, StagesAre
    <2>4. late' \in SUBSET Groups
      BY <1>1 DEF Hers, PipeInv, PipeTypes
    <2>. QED
      BY <1>1, <2>1, <2>2, <2>3, <2>4 DEF PipeInv, PipeTypes, RowOf
  <1>5. PipeCounts'
    BY <1>1 DEF PipeInv, PipeCounts
  <1>6. CallsInv'
    <2>1. ASSUME NEW s \in Contexts PROVE CallOf(s)'
      <3>1. Asked(s)' = Asks(turns') /\ ~Continues(s)' /\ s \in Stages
        BY StagesAre DEF Asked, Continues, Asks
      <3>2. Asks(turns') \subseteq Groups
        BY <1>1, ListIsTyped DEF Asks, Hers
      <3>3. \A id \in Groups : call'[s].rows[id] =
               IF id \in Asks(turns') /\ Successful(file[s][id]) THEN file[s][id]
                 ELSE NoRow
        BY <1>2, <3>1, BegunIs
      <3>4. call'[s].pc = "calling"
        BY <1>2, <3>1, BegunIs
      <3>. QED
        BY <1>1, <3>1, <3>2, <3>3, <3>4, RowKinds DEF CallOf, Successful
    <2>. QED
      BY <1>2, <1>3, <2>1, StagesAre DEF CallsInv
  <1>7. RunInv'
    <2>1. turns' = TurnsOf(Hers)'
      BY <1>1 DEF Hers, TurnsOf, Speech, Beat, TurnOf, Starts
    <2>2. CallOf("speaker")
      BY <1>1, StagesAre DEF PipeInv, CallsInv
    <2>3. ASSUME ~carryOn, NEW g \in Groups PROVE Successful(file["speaker"][g])
      <3>1. ~Continues("speaker") /\ g \in Asked("speaker")
        BY <2>3 DEF Continues, Asked
      <3>2. file["speaker"][g] # NoRow /\ file["speaker"][g].state # "failed"
        BY <1>1, <2>2, <3>1 DEF CallOf
      <3>. QED
        BY <3>2, StagesAre, RowKinds DEF PipeInv, PipeTypes
    <2>4. ~carryOn' => \A g \in Groups : Successful(file'["speaker"][g])
      BY <1>1, <2>3
    <2>. QED
      BY <1>1, <2>1, <2>4 DEF RunInv, Successful
  <1>8. PipeTurns'
    <2>1. PICK T \in SUBSET Hers : turns = TurnsOf(T) /\ FitFor(T)
      BY DEF PipeInv, PipeTurns
    <2>2. Hers' = Hers /\ T \in SUBSET Groups
      BY <1>1 DEF Hers
    <2>3. turns' = TurnsOf(Hers)'
      BY <1>1 DEF Hers, TurnsOf, Speech, Beat, TurnOf, Starts
    <2>4. UNION {turns[k].speech : k \in DOMAIN turns} = T
      BY <2>1, <2>2, ListTellsHers
    <2>5. ASSUME NEW s \in Contexts, NEW k \in Groups
          PROVE  FitsTurn(file[s][k], k, Hers)' /\ FitsTurn(call[s].rows[k], k, Hers)'
      <3>0. PICK H : H = Hers
        OBVIOUS
      <3>1. CASE \E r \in Contexts, i \in Groups : Successful(file[r][i])
        <4>1. late \cup (H \ T) \subseteq late' /\ joined' = joined /\ T \subseteq H
          BY <1>1, <2>1, <2>4, <3>0, <3>1
        <4>2. FitsTurn(file'[s][k], k, T)
          BY <1>1, <2>1 DEF FitFor
        <4>3. call'[s].rows[k] = file[s][k] \/ call'[s].rows[k] = NoRow
          BY <1>2, BegunIs, StagesAre
        <4>4. FitsTurn(call'[s].rows[k], k, T)
          BY <1>1, <4>2, <4>3, RowKinds DEF FitsTurn
        <4>5. FitsTurn(file[s][k], k, H)' /\ FitsTurn(call[s].rows[k], k, H)'
          BY <4>1, <4>2, <4>4, FitsStill
        <4>. QED
          BY <2>2, <3>0, <4>5 DEF FitsTurn
      <3>2. CASE ~ \E r \in Contexts, i \in Groups : Successful(file[r][i])
        <4>1. ~Successful(file'[s][k])
          BY <1>1, <3>2
        <4>2. ~Successful(call'[s].rows[k])
          BY <1>2, <3>2, BegunIs, StagesAre, RowKinds
        <4>. QED
          BY <4>1, <4>2 DEF FitsTurn, Successful
      <3>. QED
        BY <3>1, <3>2
    <2>6. FitFor(Hers)'
      BY <2>5 DEF FitFor
    <2>. QED
      BY <2>3, <2>6 DEF PipeTurns
  <1>. QED
    BY <1>4, <1>5, <1>6, <1>7, <1>8 DEF PipeInv

(* Nothing is called any more, and what is known stays known.               *)
LEMMA StopHolds ==
    ASSUME PipeInv, UNCHANGED <<joined, file, carryOn, turns, late>>,
           phase' \in {"idle", "assembled", "done", "failed"},
           call' = [s \in Stages |-> NoCall]
             \/ (call' = call /\ \A s \in Stages : call[s].pc = "idle")
    PROVE  PipeTypes' /\ CallsInv' /\ PipeTurns'
  <1>1. NoCall \in CallType
        /\ NoCall.pc = "idle" /\ \A s \in Stages, id \in Groups :
             NoCall.rows[id] \in RowOf(s)
    BY RowKinds DEF NoCall, NoRows, RowOf, Row, NoRow, CallType
  <1>2. \A s \in Stages : call'[s].pc = "idle"
    BY <1>1
  <1>3. call' \in [Stages -> CallType]
    BY <1>1 DEF PipeInv, PipeTypes
  <1>4. \A s \in Stages, id \in Groups : file'[s][id] \in RowOf(s)
          /\ call'[s].rows[id] \in RowOf(s)
    BY <1>1 DEF PipeInv, PipeTypes
  <1>5. PipeTypes'
    BY <1>2, <1>3, <1>4 DEF PipeInv, PipeTypes, RowOf
  <1>6. CallsInv'
    BY <1>2 DEF CallsInv
  <1>7. PipeTurns'
    <2>1. PICK T \in SUBSET Hers : turns = TurnsOf(T) /\ FitFor(T)
      BY DEF PipeInv, PipeTurns
    <2>2. T \in SUBSET Hers'
      BY DEF Hers
    <2>3. turns' = TurnsOf(T)'
      BY <2>1 DEF TurnsOf, Speech, Beat, TurnOf, Starts
    <2>4. joined' = joined /\ late' = late /\ T \subseteq T
      OBVIOUS
    <2>5. ASSUME NEW r \in Contexts, NEW k \in Groups PROVE FitsTurn(file[r][k], k, T)'
      BY <2>1, <2>4, FitsStill DEF FitFor
    <2>6. FitFor(T)'
      BY <1>2, <2>5, StagesAre DEF FitFor
    <2>. QED
      BY <2>2, <2>3, <2>6 DEF PipeTurns
  <1>. QED
    BY <1>5, <1>6, <1>7

(* Turns, files and messages are what they are of.                          *)
LEMMA SameMessages ==
    ASSUME UNCHANGED <<joined, file, turns>>
    PROVE  /\ Hers' = Hers /\ TurnsOf(Hers)' = TurnsOf(Hers)
                /\ Asks(turns)' = Asks(turns)
           /\ \A k : Drafted(k)' = Drafted(k) /\ Message(k)' = Message(k)
  <1>1. Hers' = Hers /\ TurnsOf(Hers)' = TurnsOf(Hers)
          /\ Asks(turns)' = Asks(turns)
    BY DEF Hers, Asks, TurnsOf, Speech, Beat, TurnOf, Starts
  <1>2. ASSUME NEW k PROVE Drafted(k)' = Drafted(k) /\ Message(k)' = Message(k)
    BY DEF Drafted, Usable, Message, SystemOf
  <1>. QED
    BY <1>1, <1>2

LEMMA AssembleHolds == ASSUME PipeInv, Assemble PROVE PipeInv'
  <1>1. /\ phase = "contexts" /\ \A s \in Contexts : call[s].pc = "done"
        /\ draft' = {Message(k) : k \in {i \in DOMAIN turns : Drafted(i)}}
        /\ phase' = "assembled" /\ call' = [s \in Stages |-> NoCall]
        /\ UNCHANGED <<joined, file, carryOn, turns, trainable, late, runs, faults, crashes>>
    BY DEF Assemble
  <1>2. PipeTypes' /\ CallsInv' /\ PipeTurns'
    BY <1>1, StopHolds
  <1>3. PipeCounts'
    BY <1>1 DEF PipeInv, PipeCounts
  <1>4. RunInv'
    <2>1. turns' = TurnsOf(Hers)' /\ (~carryOn' => \A g \in Groups :
            Successful(file'["speaker"][g]))
      BY <1>1, SameMessages DEF PipeInv, RunInv
    <2>2. ASSUME NEW s \in Contexts, NEW k \in Groups
          PROVE  IF k \in Asks(turns) THEN Successful(file[s][k])
                   ELSE file[s][k] = NoRow
      <3>1. CallOf(s) /\ ~Continues(s) /\ Asked(s) = Asks(turns)
              /\ call[s].pc = "done"
        BY <1>1, StagesAre DEF PipeInv, CallsInv, Continues, Asked
      <3>2. file[s] = call[s].rows /\ file[s][k].state # "failed"
        BY <3>1 DEF CallOf
      <3>3. k \in Asks(turns) => file[s][k] # NoRow
        BY <3>1, <3>2 DEF CallOf
      <3>4. k \notin Asks(turns) => file[s][k] = NoRow
        BY <3>1, <3>2 DEF CallOf
      <3>5. file[s][k] \in RowOf(s)
        BY StagesAre DEF PipeInv, PipeTypes
      <3>. QED
        BY <3>2, <3>3, <3>4, <3>5, RowKinds
    <2>3. \A s \in Contexts, k \in Groups :
             IF k \in Asks(turns)' THEN Successful(file'[s][k])
               ELSE file'[s][k] = NoRow
      BY <1>1, <2>2, SameMessages
    <2>4. draft' = {Message(k) : k \in {i \in DOMAIN turns : Drafted(i)}}'
      BY <1>1, SameMessages
    <2>. QED
      BY <2>1, <2>3, <2>4 DEF RunInv, Successful
  <1>. QED
    BY <1>2, <1>3, <1>4 DEF PipeInv

LEMMA CheckHolds == ASSUME PipeInv, Check PROVE PipeInv'
  <1>1. /\ phase = "assembled" /\ phase' = "done"
        /\ UNCHANGED <<joined, file, carryOn, call, turns, draft, late, runs, faults, crashes>>
    BY DEF Check
  <1>2. \A s \in Stages : call[s].pc = "idle"
    BY <1>1 DEF PipeInv, PipeTypes
  <1>3. PipeTypes' /\ CallsInv' /\ PipeTurns'
    BY <1>1, <1>2, StopHolds
  <1>4. PipeCounts'
    BY <1>1 DEF PipeInv, PipeCounts
  <1>5. RunInv'
    BY <1>1, SameMessages DEF PipeInv, RunInv, Successful
  <1>. QED
    BY <1>3, <1>4, <1>5 DEF PipeInv

LEMMA EndHolds == ASSUME PipeInv, Fail \/ Crash PROVE PipeInv'
  <1>1. /\ phase' \in {"idle", "failed"} /\ call' = [s \in Stages |-> NoCall]
        /\ UNCHANGED <<joined, file, carryOn, turns, draft, trainable, late, runs, faults>>
        /\ crashes' \in 0..MaxCrashes
    BY BoundsAreNat DEF Fail, Crash, PipeInv, PipeCounts, BoundsAreNat
  <1>2. PipeTypes' /\ CallsInv' /\ PipeTurns'
    BY <1>1, StopHolds
  <1>3. PipeCounts'
    BY <1>1 DEF PipeInv, PipeCounts
  <1>4. RunInv'
    BY <1>1 DEF RunInv
  <1>. QED
    BY <1>2, <1>3, <1>4 DEF PipeInv

LEMMA ClearHolds == ASSUME PipeInv, ClearContexts PROVE PipeInv'
  <1>1. /\ phase \in {"idle", "failed", "done"} /\ late' = {} /\ phase' = "idle"
        /\ file' = [s \in Stages |-> IF s \in Contexts THEN NoRows ELSE file[s]]
        /\ UNCHANGED <<joined, carryOn, call, turns, draft, trainable, runs, faults, crashes>>
    BY DEF ClearContexts
  <1>2. \A s \in Stages : call[s].pc = "idle"
    BY <1>1 DEF PipeInv, PipeTypes
  <1>3. file'["speaker"] = file["speaker"] /\ \A s \in Contexts : file'[s] = NoRows
    BY <1>1, StagesAre
  <1>4. NoRows \in [Groups -> Row] /\ \A s \in Stages, id \in Groups :
          NoRows[id] \in RowOf(s)
    BY RowKinds DEF NoRows, Row, NoRow
  <1>5. PipeTypes'
    <2>1. file' \in [Stages -> [Groups -> Row]]
      BY <1>1, <1>4 DEF PipeInv, PipeTypes
    <2>2. \A s \in Stages, id \in Groups : file'[s][id] \in RowOf(s)
            /\ call'[s].rows[id] \in RowOf(s)
      BY <1>1, <1>4 DEF PipeInv, PipeTypes
    <2>. QED
      BY <1>1, <1>2, <2>1, <2>2 DEF PipeInv, PipeTypes, RowOf
  <1>6. PipeCounts' /\ CallsInv' /\ RunInv'
    BY <1>1, <1>2 DEF PipeInv, PipeCounts, CallsInv, RunInv
  <1>7. PipeTurns'
    <2>1. PICK T \in SUBSET Hers : turns = TurnsOf(T) /\ FitFor(T)
      BY DEF PipeInv, PipeTurns
    <2>2. T \in SUBSET Hers'
      BY <1>3 DEF Hers
    <2>3. turns' = TurnsOf(T)'
      BY <1>1, <2>1 DEF TurnsOf, Speech, Beat, TurnOf, Starts
    <2>4. ASSUME NEW r \in Contexts, NEW k \in Groups PROVE ~Successful(file'[r][k])
      BY <1>3, RowKinds DEF NoRows
    <2>5. FitFor(T)'
      BY <1>1, <1>2, <2>4, StagesAre DEF FitFor, FitsTurn, Successful
    <2>. QED
      BY <2>2, <2>3, <2>5 DEF PipeTurns
  <1>. QED
    BY <1>5, <1>6, <1>7 DEF PipeInv

LEMMA PipeHolds == ASSUME PipeInv, [PipelineNext]_pipelineVars PROVE PipeInv'
  <1>1. CASE UNCHANGED pipelineVars
    <2>1. UNCHANGED <<joined, file, turns>>
      BY <1>1 DEF pipelineVars
    <2>2. RunInv'
      BY <1>1, <2>1, SameMessages DEF pipelineVars, PipeInv, RunInv, Successful
    <2>3. PipeTypes' /\ PipeCounts'
      BY <1>1 DEF pipelineVars, PipeInv, PipeTypes, PipeCounts, RowOf
    <2>4. CallsInv'
      BY <1>1
         DEF pipelineVars, PipeInv, CallsInv, CallOf, Asked, Asks, Continues,
             Successful
    <2>5. PipeTurns'
      <3>1. PICK T \in SUBSET Hers : turns = TurnsOf(T) /\ FitFor(T)
        BY DEF PipeInv, PipeTurns
      <3>2. T \in SUBSET Hers' /\ turns' = TurnsOf(T)'
        BY <1>1, <3>1
           DEF pipelineVars, Hers, TurnsOf, Speech, Beat, TurnOf, Starts
      <3>3. joined' = joined /\ late' = late /\ T \subseteq T
        BY <1>1 DEF pipelineVars
      <3>4. ASSUME NEW r \in Contexts, NEW k \in Groups
            PROVE  FitsTurn(file[r][k], k, T)'
                     /\ (call'[r].pc # "idle" => FitsTurn(call[r].rows[k], k, T)')
        BY <1>1, <3>1, <3>3, FitsStill DEF pipelineVars, FitFor
      <3>5. FitFor(T)'
        BY <3>4 DEF FitFor
      <3>. QED
        BY <3>2, <3>5 DEF PipeTurns
    <2>. QED
      BY <2>2, <2>3, <2>4, <2>5 DEF PipeInv
  <1>2. CASE PipelineNext
    BY <1>2, StartHolds, AnchorHolds, EndHolds, AssembleHolds, CheckHolds, ClearHolds, FinishHolds,
       AnswerHolds DEF PipelineNext
  <1>. QED
    BY <1>1, <1>2

LEMMA PipeAlways == PipelineSpec => []PipeInv
  <1>1. PipelineInit => PipeInv
    BY InitPipe
  <1>2. PipeInv /\ [PipelineNext]_pipelineVars => PipeInv'
    BY PipeHolds
  <1>. QED
    BY <1>1, <1>2, PTL DEF PipelineSpec

-----------------------------------------------------------------------------
(* Types of the messages *)

LEMMA MessageIsTyped ==
    ASSUME PipeInv, NEW k \in DOMAIN turns, Drafted(k)
    PROVE  Message(k) \in MessageType
  <1>1. PICK T \in SUBSET Groups : turns = TurnsOf(T)
    BY DEF PipeInv, PipeTurns, Hers
  <1>2. k \in Groups /\ turns[k].speech \in SUBSET Groups
    BY <1>1, ListIsTyped
  <1>3. \A s \in Contexts, i \in Groups : file[s][i].about \in SUBSET Groups
          /\ file[s][i].seen \in SUBSET Groups
    BY StagesAre DEF PipeInv, PipeTypes, Row
  <1>4. SystemOf(k).about \in SUBSET Groups
    <2>1. CASE Usable("system", k)
      BY <1>2, <1>3, <2>1 DEF SystemOf, Contexts
    <2>2. CASE ~Usable("system", k)
      <3>. DEFINE Good == {i \in Groups : Usable("system", i)}
      <3>1. Good \in SUBSET (1..Quotes) /\ Good # {} /\ Quotes \in Nat
        BY BoundsAreNat DEF Drafted, Groups, BoundsAreNat
      <3>2. \E i \in Good : \A j \in Good : j <= i
        <4>. HIDE DEF Good
        <4>. QED
          BY <3>1, LatestExists
      <3>3. \E i \in Groups : Usable("system", i) /\ \A j \in Groups :
              Usable("system", j) => j <= i
        BY <3>2
      <3>4. PICK i \in Groups : SystemOf(k) = file["system"][i]
        BY <2>2, <3>3 DEF SystemOf
      <3>. QED
        BY <1>3, <3>4 DEF Contexts
    <2>. QED
      BY <2>1, <2>2
  <1>5. [s \in Contexts |-> IF s = "system" THEN SystemOf(k).about ELSE file[s][k].about]
           \in [Contexts -> SUBSET Groups]
    BY <1>2, <1>3, <1>4
  <1>6. file["assistant"][k].seen \in SUBSET Groups
    BY <1>2, <1>3 DEF Contexts
  <1>. QED
    BY <1>2, <1>5, <1>6 DEF Message, MessageType

Drafts == draft \subseteq MessageType /\ trainable \subseteq MessageType

LEMMA DraftsHold == ASSUME PipeInv, Drafts, [PipelineNext]_pipelineVars PROVE Drafts'
  <1>1. CASE Assemble
    BY <1>1, MessageIsTyped DEF Assemble, Drafts, MessageType
  <1>2. CASE Check
    BY <1>2 DEF Check, Drafts, MessageType
  <1>3. CASE \/ StartRun \/ Anchor \/ Fail \/ Crash \/ ClearContexts
             \/ UNCHANGED pipelineVars
    BY <1>3
       DEF StartRun, Anchor, Fail, Crash, ClearContexts, pipelineVars, Drafts,
           MessageType
  <1>4. ASSUME NEW s \in Stages, NEW id \in Groups, Finish(s) \/ Answer(s, id)
        PROVE  Drafts'
    BY <1>4 DEF Finish, Answer, Drafts, MessageType
  <1>5. ASSUME NEW s \in Stages, Finish(s) PROVE Drafts'
    BY <1>5 DEF Finish, Drafts, MessageType
  <1>. QED
    BY <1>1, <1>2, <1>3, <1>4, <1>5 DEF PipelineNext

(* Rows of the response files are what their stage may answer, and messages  *)
(* are put together from quotes of the chapter (call_prompt_requests,        *)
(* assemble_sft_messages).                                                   *)
THEOREM PipelineTypesHold == PipelineSpec => []PipelineTypeOK
  <1>1. PipelineInit => Drafts
    BY DEF PipelineInit, Drafts
  <1>2. PipeInv /\ Drafts /\ [PipelineNext]_pipelineVars => Drafts'
    BY DraftsHold
  <1>3. PipeInv /\ Drafts => PipelineTypeOK
    <2>1. ASSUME PipeInv, Drafts PROVE PipelineTypeOK
      <3>1. PICK T \in SUBSET Groups : turns = TurnsOf(T)
        BY <2>1 DEF PipeInv, PipeTurns, Hers
      <3>2. \E ids \in SUBSET Groups : turns \in [ids
              -> [speech : SUBSET Groups, beat : SUBSET Groups]]
        BY <3>1, ListIsTyped
      <3>. QED
        BY <2>1, <3>2
           DEF PipelineTypeOK, PipeInv, PipeTypes, PipeCounts, Drafts, MessageType, CallType
    <2>. QED
      BY <2>1
  <1>. QED
    BY <1>1, <1>2, <1>3, PipeAlways, PTL DEF PipelineSpec

-----------------------------------------------------------------------------
(* What a paid answer is worth *)

LEMMA StepKeeps ==
    ASSUME PipeInv, PipelineNext, ~ClearContexts, NEW s \in Stages,
           NEW id \in Groups,
           Successful(file[s][id])
    PROVE  file'[s][id] = file[s][id] \/ (id \notin Asked(s) /\ file'[s][id] = NoRow)
  <1>1. CASE file' = file
    BY <1>1
  <1>2. ASSUME NEW r \in Stages, NEW pc, NEW rows, Writes(r, pc, rows)
        PROVE  file'[s][id] = file[s][id] \/ (id \notin Asked(s) /\ file'[s][id] = NoRow)
    <2>1. file'[r] = rows /\ \A q \in Stages : q # r => file'[q] = file[q]
      BY <1>2 DEF Writes, PipeInv, PipeTypes
    <2>2. CASE r = s
      BY <1>2, <2>1, <2>2, FileIsKept
    <2>3. CASE r # s
      BY <2>1, <2>3
    <2>. QED
      BY <2>2, <2>3
  <1>3. ASSUME NEW r \in Stages, NEW i \in Groups, Answer(r, i)
        PROVE  \E pc, rows : Writes(r, pc, rows)
    BY <1>3, AnswerHolds
  <1>4. ASSUME NEW r \in Stages, Finish(r) PROVE \E pc, rows : Writes(r, pc, rows)
    BY <1>4, FinishHolds
  <1>5. CASE StartRun \/ Anchor \/ Fail \/ Assemble \/ Check \/ Crash
    BY <1>1, <1>5 DEF StartRun, Anchor, Fail, Assemble, Check, Crash
  <1>. QED
    BY <1>2, <1>3, <1>4, <1>5 DEF PipelineNext

(* A successful answer stays in its file through failures, deaths and       *)
(* resumed runs (call_prompt_requests, write_jsonl).                         *)
THEOREM PaidAnswersAreKept == PipelineSpec => SuccessIsKept
  <1>1. PipeInv /\ [PipelineNext]_pipelineVars =>
          [ ClearContexts \/
            \A s \in Stages : \A id \in Groups : Successful(file[s][id]) =>
                \/ file'[s][id] = file[s][id]
                \/ id \notin Asked(s) /\ file'[s][id] = NoRow ]_pipelineVars
    BY StepKeeps
  <1>. QED
    BY <1>1, PipeAlways, PTL DEF PipelineSpec, SuccessIsKept

(* At the end of a run the rows of a turn are all there.                    *)
LEMMA RowsOfTurns ==
    ASSUME PipeInv, phase \in {"assembled", "done"}
    PROVE  /\ turns = TurnsOf(Hers) /\ Hers \in SUBSET Groups
           /\ \A k \in Asks(turns) : /\ k \in DOMAIN turns /\ k \in Groups
                                     /\ Usable("system", k)
                                     /\ \A s \in Contexts : Successful(file[s][k])
           /\ \A k \in DOMAIN turns : Drafted(k) => k \in Asks(turns)
  <1>1. turns = TurnsOf(Hers) /\ Hers \in SUBSET Groups
    BY DEF PipeInv, RunInv, Hers
  <1>2. DOMAIN turns \subseteq Groups
    BY <1>1, ListIsTyped
  <1>3. \A s \in Contexts, k \in Groups :
           IF k \in Asks(turns) THEN Successful(file[s][k]) ELSE file[s][k] = NoRow
    BY DEF PipeInv, RunInv
  <1>4. ASSUME NEW k \in Asks(turns) PROVE Usable("system", k)
    <2>1. k \in Groups /\ Successful(file["system"][k])
      BY <1>2, <1>3 DEF Asks, Contexts
    <2>2. file["system"][k] \in RowOf("system")
      BY <2>1 DEF PipeInv, PipeTypes, Stages, Contexts
    <2>. QED
      BY <2>1, <2>2 DEF RowOf, Successful, Usable
  <1>5. ASSUME NEW k \in DOMAIN turns, Drafted(k) PROVE k \in Asks(turns)
    BY <1>2, <1>3, <1>5 DEF Drafted, Usable, NoRow, Contexts
  <1>. QED
    BY <1>1, <1>2, <1>3, <1>4, <1>5 DEF Asks

(* Every quote of hers is in a message at the end of a run, or the answer   *)
(* for its turn was of no use (assemble_sft_messages).                      *)
THEOREM NoTurnIsSkipped == PipelineSpec => []NothingSkipped
  <1>1. ASSUME PipeInv, phase = "done" PROVE NothingSkipped
    <2>1. ~carryOn => \A g \in Groups : Successful(file["speaker"][g])
      BY <1>1 DEF PipeInv, RunInv
    <2>2. ASSUME NEW g \in Hers,
                 \A s \in {"user", "assistant"} : file[s][TurnOf(Hers, g)].state # "unusable"
          PROVE  \E m \in draft : g \in m.speech
      <3>1. PICK k : k = TurnOf(Hers, g)
        OBVIOUS
      <3>2. k \in DOMAIN turns /\ g \in turns[k].speech
        BY <1>1, <3>1, RowsOfTurns, TurnIsListed, ListIsTyped DEF TurnsOf
      <3>3. k \in Asks(turns)
        BY <3>2 DEF Asks
      <3>4. Drafted(k)
        BY <1>1, <2>2, <3>1, <3>3, RowsOfTurns
           DEF Drafted, Usable, Successful, Contexts
      <3>5. Message(k) \in draft
        BY <1>1, <3>2, <3>4 DEF PipeInv, RunInv
      <3>. QED
        BY <3>2, <3>5 DEF Message
    <2>. QED
      BY <2>1, <2>2 DEF NothingSkipped
  <1>2. PipeInv => NothingSkipped
    BY <1>1 DEF NothingSkipped
  <1>. QED
    BY <1>2, PipeAlways, PTL

(* A message with a context of another speech is due to a late attribution   *)
(* that is not behind it (build_context_requests, call_prompt_requests).     *)
THEOREM MisfitsAreLate == PipelineSpec => []MisfitIsExplained
  <1>1. ASSUME PipeInv, phase \in {"assembled", "done"}, NEW m \in draft, NEW s \in Contexts,
               \A g \in late : \A h \in m.speech : ~(g <= h)
        PROVE  m.parts[s] = m.speech
    <2>1. PICK k \in DOMAIN turns : Drafted(k) /\ m = Message(k)
      BY <1>1 DEF PipeInv, RunInv
    <2>2. k \in Asks(turns) /\ k \in Groups /\ Usable("system", k)
            /\ Successful(file[s][k])
      BY <1>1, <2>1, RowsOfTurns
    <2>3. m.parts[s] = file[s][k].about
      BY <2>1, <2>2 DEF Message, SystemOf
    <2>4. PICK T \in SUBSET Hers : turns = TurnsOf(T) /\ FitFor(T)
      BY <1>1 DEF PipeInv, PipeTurns
    <2>5. T \in SUBSET Groups /\ turns[k].speech = Speech(T, k)
            /\ m.speech = Speech(T, k)
      BY <2>1, <2>4, ListIsTyped DEF Hers, Message
    <2>6. PICK H \in SUBSET T : file[s][k].about = Speech(H, k) /\ T \ H \subseteq late
      BY <2>2, <2>4 DEF FitFor, FitsTurn
    <2>7. Speech(T, k) # {}
      BY <2>2, <2>5 DEF Asks
    <2>8. \A g \in T \ H : \A h \in Speech(T, k) : h < g
      <3>1. \A g \in T \ H, h \in Speech(T, k) : g \in Nat /\ h \in Nat /\ ~(g <= h)
        BY <1>1, <2>5, <2>6, BoundsAreNat DEF Speech, Groups, BoundsAreNat
      <3>. QED
        BY <3>1
    <2>9. Speech(H, k) = Speech(T, k)
      BY <2>5, <2>7, <2>8, SpeechStays
    <2>. QED
      BY <2>3, <2>5, <2>6, <2>9
  <1>2. PipeInv => MisfitIsExplained
    BY <1>1 DEF MisfitIsExplained
  <1>. QED
    BY <1>2, PipeAlways, PTL
=============================================================================
