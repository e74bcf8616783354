-------------------------- MODULE TelegramBot_proofs --------------------------
(* The bot loses no more than the update in hand to a fault, acts on an update once    *)
(* unless the file of its offset was cut off, and what it told the users of delivery   *)
(* stays so.  The invariants rest on each other in the order Shape, Offsets, then      *)
(* Losses, ActsLeft and InDoubt.                                                       *)
EXTENDS TelegramBot, FiniteSetTheorems, TLAPS

-----------------------------------------------------------------------------
(* The updates are numbered from 1 without a gap, and stay as they came. *)

LEMMA SentNumbers ==
  ASSUME TypeOK
  PROVE  /\ Cardinality(Sent) \in 0..MaxUpdates /\ Sent = 1..Cardinality(Sent)
         /\ IsFiniteSet(Sent) /\ Sent \subseteq Update
<1>1. PICK n \in 0..MaxUpdates : Sent = 1..n
  BY DEF TypeOK
<1>2. IsFiniteSet(1..n) /\ Cardinality(1..n) = n
  BY FS_Interval, BotAssumption
<1>. QED BY <1>1, <1>2, BotAssumption DEF Update

LEMMA ArrivesKeeps ==
  ASSUME TypeOK, NEW do \in Command \cup Tap, NEW of \in Prompt \cup {None}, Arrives(do, of)
  PROVE  /\ Sent' = 1..(Cardinality(Sent) + 1) /\ Cardinality(Sent)' = Cardinality(Sent) + 1
         /\ Cardinality(Sent) < MaxUpdates
         /\ Sent' = Sent \cup {Cardinality(Sent) + 1}
         /\ \A u \in Sent : update'[u] = update[u]
         /\ update'[Cardinality(Sent) + 1] = [do |-> do, of |-> of]
<1>. DEFINE n == Cardinality(Sent)
<1>1. n \in 0..MaxUpdates /\ Sent = 1..n
  BY SentNumbers
<1>2. Sent' = Sent \cup {n + 1}
  BY DEF Arrives, Sent
<1>3. Sent' = 1..(n + 1)
  BY <1>1, <1>2, BotAssumption
<1>4. Cardinality(1..(n + 1)) = n + 1
  BY <1>1, FS_Interval, BotAssumption
<1>5. n + 1 \notin Sent
  BY <1>1
<1>. QED BY <1>1, <1>2, <1>3, <1>4, <1>5 DEF Arrives

\* A step of the users is an arrival of a command or of a tap.
LEMMA UserStepArrives ==
  ASSUME TypeOK, UserSends \/ UserTaps
  PROVE  \E do \in Command \cup Tap, of \in Prompt \cup {None} : Arrives(do, of)
<1>1. CASE UserSends
  BY <1>1 DEF UserSends
<1>2. CASE UserTaps
  <2>1. PICK m \in Prompt : prompt[m] # "none" /\ \E do \in {prompt[m], "cancel"} : Arrives(do, m)
    BY <1>2 DEF UserTaps
  <2>2. {prompt[m], "cancel"} \subseteq Tap
    BY <2>1 DEF TypeOK, Tap
  <2>. QED BY <2>1, <2>2
<1>. QED BY <1>1, <1>2

LEMMA LargerIsLarger ==
  ASSUME NEW a \in Nat, NEW b \in Nat
  PROVE  /\ Larger(a, b) \in {a, b} /\ a <= Larger(a, b) /\ b <= Larger(a, b)
         /\ \A n \in Nat : n < Larger(a, b) <=> n < a \/ n < b
  BY DEF Larger

LEMMA SwitchIsOnOff ==
  ASSUME NEW do \in Switches
  PROVE  Switch[do] \in {"on", "off"}
  BY DEF Switch, Switches

-----------------------------------------------------------------------------
(* Types and the shape of the loop. *)

LEMMA TypeStep ==
  ASSUME TypeOK, Shape, [Next]_vars
  PROVE  TypeOK'
<1>1. CASE UserSends \/ UserTaps
  <2>1. PICK do \in Command \cup Tap, of \in Prompt \cup {None} : Arrives(do, of)
    BY <1>1, UserStepArrives
  <2>. DEFINE n == Cardinality(Sent)
  <2>5. /\ Sent' = 1..(n + 1) /\ n < MaxUpdates /\ Sent' = Sent \cup {n + 1}
        /\ \A u \in Sent : update'[u] = update[u]
        /\ update'[n + 1] = [do |-> do, of |-> of]
    BY <2>1, ArrivesKeeps
  <2>6. n + 1 \in 0..MaxUpdates
    BY <2>5, SentNumbers, BotAssumption
  <2>. HIDE DEF n
  <2>2. Sent' \in {1..m : m \in 0..MaxUpdates}
    BY <2>5, <2>6
  <2>3. \A u \in Sent' : update'[u] \in [do: Command \cup Tap, of: Prompt \cup {None}]
    <3>1. [do |-> do, of |-> of] \in [do: Command \cup Tap, of: Prompt \cup {None}]
      OBVIOUS
    <3>. QED BY <2>5, <3>1 DEF TypeOK
  <2>4. Sent \subseteq Sent'
    BY <2>5
  <2>. QED BY <2>1, <2>2, <2>3, <2>4 DEF TypeOK, Arrives, bot, poller, history
<1>2. CASE GetUpdates
  BY <1>2 DEF TypeOK, telegram, bot, poller, history, Sent, GetUpdates, Larger
<1>3. ASSUME NEW u \in Update, Takes(u) PROVE TypeOK'
  <2>1. u \in batch /\ u + 1 \in Nat
    BY <1>3, BotAssumption DEF Takes, First, Update
  <2>. QED BY <1>3, <2>1 DEF TypeOK, telegram, bot, poller, history, Sent, Takes, Taken, Larger
<1>4. CASE BatchEnds
  BY <1>4 DEF TypeOK, telegram, bot, poller, history, Sent, BatchEnds
<1>5. CASE ClearsMarkup
  BY <1>5, BotAssumption DEF TypeOK, telegram, bot, poller, history, Sent, ClearsMarkup, Fault
<1>6. CASE Asks
  BY <1>6 DEF TypeOK, telegram, bot, poller, history, Sent, Asks
<1>7. CASE Hears
  BY <1>7 DEF TypeOK, telegram, bot, poller, history, Sent, Hears
<1>8. CASE Replies
  <2>1. current \in Sent
    BY <1>8 DEF Replies, Shape
  <2>2. faults' \in 0..MaxFaults
    BY <1>8, BotAssumption DEF TypeOK, Replies, Fault
  <2>3. ASSUME NEW do \in Offers, NEW n \in 0..2, Prompts(do, n)
        PROVE  prompts' \in 0..MaxPrompts /\ prompt' \in [Prompt -> Tap \cup {"none"}]
    <3>1. Button[do] \in Tap
      BY DEF Button, Offers, Tap
    <3>. QED BY <2>3, <3>1, BotAssumption DEF TypeOK, Prompts
  <2>4. prompts' \in 0..MaxPrompts /\ prompt' \in [Prompt -> Tap \cup {"none"}]
    BY <1>8, <2>3 DEF TypeOK, Replies
  <2>5. told' \in {"on", "off", "unsure"}
    BY <1>8 DEF TypeOK, Replies, Switch, Switches
  <2>. QED BY <1>8, <2>1, <2>2, <2>4, <2>5 DEF TypeOK, telegram, bot, poller, history, Sent, Replies
<1>9. CASE Starts
  BY <1>9 DEF TypeOK, telegram, bot, poller, history, Sent, Starts, None
<1>10. CASE PollFails
  BY <1>10, BotAssumption DEF TypeOK, telegram, bot, poller, history, Sent, PollFails, Fault, Larger
<1>11. ASSUME NEW u \in Update, SavingFails(u) PROVE TypeOK'
  BY <1>11, BotAssumption DEF TypeOK, telegram, bot, poller, history, Sent, SavingFails, Fault, Taken, Larger, Update
<1>12. CASE Crash
  BY <1>12, BotAssumption DEF TypeOK, telegram, bot, poller, history, Sent, Crash, Fault
<1>13. CASE Executes
  BY <1>13 DEF TypeOK, telegram, bot, poller, history, Sent, Executes, Saves, Switch, Switches, Acts
<1>14. CASE SwitchFails
  <2>1. enabled' \in {"on", "off"}
    BY <1>14, SwitchIsOnOff DEF SwitchFails
  <2>2. acted' \in [Update -> Nat]
    <3>1. acted \in [Update -> Nat] /\ acted' = [acted EXCEPT ![current] = acted[current] + 1]
      BY <1>14 DEF TypeOK, SwitchFails, Acts
    <3>2. current \in Update
      BY <1>14, SentNumbers DEF SwitchFails, Shape
    <3>. QED BY <3>1, <3>2
  <2>. QED BY <1>14, <2>1, <2>2, BotAssumption DEF TypeOK, telegram, bot, history, Sent, SwitchFails, Fault
<1>15. CASE RequestFails
  BY <1>15, BotAssumption DEF TypeOK, telegram, bot, poller, history, Sent, RequestFails, Fault
<1>16. CASE PollerRestarts
  BY <1>16, BotAssumption DEF TypeOK, telegram, bot, poller, history, Sent, PollerRestarts, Fault
<1>17. CASE UNCHANGED vars
  BY <1>17 DEF TypeOK, telegram, bot, poller, history, Sent, vars
<1>. QED BY <1>1, <1>2, <1>3, <1>4, <1>5, <1>6, <1>7, <1>8, <1>9, <1>10, <1>11, <1>12,
            <1>13, <1>14, <1>15, <1>16, <1>17 DEF Next, BotStep

LEMMA ShapeStep ==
  ASSUME TypeOK, Shape, [Next]_vars
  PROVE  Shape'
<1>. USE DEF Shape
<1>1. CASE UserSends \/ UserTaps
  <2>1. PICK do \in Command \cup Tap, of \in Prompt \cup {None} : Arrives(do, of)
    BY <1>1, UserStepArrives
  <2>2. Sent \subseteq Sent' /\ \A u \in Sent : update'[u] = update[u]
    BY <2>1, ArrivesKeeps
  <2>. QED BY <2>1, <2>2 DEF Arrives, bot, poller
<1>2. CASE GetUpdates
  BY <1>2 DEF GetUpdates, poller, Sent
<1>3. ASSUME NEW u \in Update, Takes(u) PROVE Shape'
  BY <1>3 DEF Takes, First, TypeOK, telegram, poller, Sent
<1>4. CASE BatchEnds
  BY <1>4 DEF BatchEnds, telegram, poller, Sent
<1>5. CASE ClearsMarkup
  BY <1>5 DEF ClearsMarkup, poller, Sent
<1>6. CASE Asks
  BY <1>6 DEF Asks, telegram, bot, Sent
<1>7. CASE Hears
  BY <1>7 DEF Hears, telegram, poller, Sent
<1>8. CASE Replies
  BY <1>8 DEF Replies, Sent
<1>9. CASE Starts
  BY <1>9 DEF Starts, telegram, Sent
<1>10. CASE PollFails
  BY <1>10 DEF PollFails, poller, Sent
<1>11. ASSUME NEW u \in Update, SavingFails(u) PROVE Shape'
  BY <1>11 DEF SavingFails, telegram, poller, Sent
<1>12. CASE Crash
  BY <1>12 DEF Crash, telegram, poller, Sent
<1>13. CASE Executes
  BY <1>13 DEF Executes, telegram, bot, Sent
<1>14. CASE SwitchFails
  BY <1>14 DEF SwitchFails, telegram, bot, Sent
<1>15. CASE RequestFails
  BY <1>15 DEF RequestFails, telegram, bot, Sent
<1>16. CASE PollerRestarts
  BY <1>16 DEF PollerRestarts, telegram, bot, Sent
<1>17. CASE UNCHANGED vars
  BY <1>17 DEF vars, telegram, bot, poller, Sent
<1>. QED BY <1>1, <1>2, <1>3, <1>4, <1>5, <1>6, <1>7, <1>8, <1>9, <1>10, <1>11, <1>12,
            <1>13, <1>14, <1>15, <1>16, <1>17 DEF Next, BotStep

-----------------------------------------------------------------------------
(* The offsets and the batch. *)

LEMMA OffsetsStep ==
  ASSUME TypeOK, Shape, Offsets, [Next]_vars
  PROVE  Offsets'
<1>. DEFINE n == Cardinality(Sent)
<1>0. n \in Nat /\ Sent = 1..n /\ batch \subseteq Sent
  BY SentNumbers, BotAssumption DEF TypeOK
<1>10. offset \in Nat /\ confirmed \in Nat /\ file \in Nat
  BY DEF TypeOK
<1>. USE DEF Offsets
<1>1. CASE UserSends \/ UserTaps
  <2>1. PICK do \in Command \cup Tap, of \in Prompt \cup {None} : Arrives(do, of)
    BY <1>1, UserStepArrives
  <2>2. Sent' = Sent \cup {n + 1} /\ Cardinality(Sent)' = n + 1
    BY <2>1, ArrivesKeeps
  <2>. QED BY <1>0, <1>10, <2>1, <2>2 DEF Arrives, bot
<1>2. CASE GetUpdates
  <2>1. UNCHANGED <<Sent, offset, file, current>> /\ confirmed' = Larger(confirmed, offset)
        /\ batch' = {u \in Sent : u >= confirmed'}
    BY <1>2 DEF GetUpdates, Sent
  <2>2. confirmed' \in {confirmed, offset} /\ offset <= confirmed'
    BY <1>10, <2>1, LargerIsLarger
  <2>. QED BY <1>0, <1>10, <2>1, <2>2
<1>3. ASSUME NEW u \in Update, Takes(u) PROVE Offsets'
  <2>1. UNCHANGED <<Sent, confirmed>> /\ batch' = batch \ {u} /\ current' = u
        /\ file' = offset' /\ offset' = Larger(offset, u + 1)
        /\ u \in batch /\ \A v \in batch : u <= v
    BY <1>3 DEF Takes, First, Taken, telegram, Sent
  <2>2. offset' \in {offset, u + 1} /\ offset <= offset' /\ u + 1 <= offset'
    BY <1>0, <1>10, <2>1, LargerIsLarger
  <2>. QED BY <1>0, <1>10, <2>1, <2>2
<1>4. ASSUME NEW u \in Update, SavingFails(u) PROVE Offsets'
  <2>1. UNCHANGED <<Sent, confirmed, current>> /\ batch' = {} /\ current = None
        /\ file' \in {file, 0} /\ offset' = Larger(offset, u + 1) /\ u \in batch
    BY <1>4 DEF SavingFails, First, Taken, telegram, Sent, Shape
  <2>2. offset' \in {offset, u + 1} /\ offset <= offset'
    BY <1>0, <1>10, <2>1, LargerIsLarger
  <2>. QED BY <1>0, <1>10, <2>1, <2>2
<1>5. CASE Replies \/ Starts
  BY <1>5, <1>0, <1>10 DEF Replies, Starts, telegram, Sent
<1>6. CASE PollFails
  <2>1. confirmed' \in {confirmed, offset} /\ offset <= confirmed' /\ confirmed <= confirmed'
    BY <1>6, <1>10, LargerIsLarger DEF PollFails
  <2>. QED BY <1>6, <1>0, <1>10, <2>1 DEF PollFails, Sent
<1>7. CASE Crash
  BY <1>7, <1>0, <1>10 DEF Crash, telegram, Sent, Shape
<1>8. ASSUME UNCHANGED <<Sent, confirmed, offset, file, batch, current>> PROVE Offsets'
  BY <1>8
<1>9. BatchEnds \/ ClearsMarkup \/ Asks \/ Hears \/ Executes \/ SwitchFails \/ RequestFails
      \/ PollerRestarts \/ UNCHANGED vars
      => UNCHANGED <<Sent, confirmed, offset, file, batch, current>>
  BY DEF BatchEnds, ClearsMarkup, Asks, Hears, Executes, SwitchFails, RequestFails,
         PollerRestarts, vars, telegram, bot, poller, history, Sent
<1>. QED BY <1>1, <1>2, <1>3, <1>4, <1>5, <1>6, <1>7, <1>8, <1>9 DEF Next, BotStep

-----------------------------------------------------------------------------
(* What a fault costs. *)

LEMMA AlmostWithin ==
  ASSUME NEW S, NEW T, NEW u, IsFiniteSet(S), T \subseteq S \cup {u}
  PROVE  /\ Cardinality(S) \in Nat /\ Cardinality(T) \in Nat
         /\ Cardinality(T) <= Cardinality(S) + 1
         /\ T \subseteq S => Cardinality(T) <= Cardinality(S)
<1>1. IsFiniteSet(S \cup {u}) /\ Cardinality(S \cup {u}) \in {Cardinality(S), Cardinality(S) + 1}
  BY FS_AddElement
<1>2. IsFiniteSet(T) /\ Cardinality(T) <= Cardinality(S \cup {u})
  BY <1>1, FS_Subset
<1>3. T \subseteq S => Cardinality(T) <= Cardinality(S)
  BY FS_Subset
<1>4. Cardinality(S) \in Nat /\ Cardinality(T) \in Nat
  BY <1>2, FS_CardinalityType
<1>. QED BY <1>1, <1>2, <1>3, <1>4

LEMMA LossesStep ==
  ASSUME TypeOK, TypeOK', Shape, Offsets, Losses, [Next]_vars
  PROVE  Losses'
<1>. DEFINE n == Cardinality(Sent)
            sk == Cardinality(Skipped)
            Gone(u, S, o, c, h, k) == u \in S /\ (u < o \/ u < c) /\ u \notin h /\ u # k
<1>0. n \in Nat /\ Sent = 1..n /\ batch \subseteq Sent /\ handled \subseteq Sent
  BY SentNumbers, BotAssumption DEF TypeOK
<1>14. offset \in Nat /\ confirmed \in Nat /\ faults \in Nat /\ faults' \in Nat
  BY BotAssumption DEF TypeOK
<1>1. /\ \A u : u \in Skipped <=> Gone(u, Sent, offset, confirmed, handled, current)
      /\ \A u : u \in Skipped' <=> Gone(u, Sent', offset', confirmed', handled', current')
  <2>1. \A u \in Sent : u \in Nat
    BY <1>0
  <2>2. \A u \in Sent' : u \in Nat
    BY DEF TypeOK
  <2>. QED BY <2>1, <2>2, LargerIsLarger DEF Skipped, TypeOK
<1>2. IsFiniteSet(Skipped)
  BY <1>0, SentNumbers, FS_Subset DEF Skipped
<1>3. ASSUME NEW u, Skipped' \subseteq Skipped \cup {u}
      PROVE  sk \in Nat /\ sk' \in Nat /\ sk' <= sk + 1 /\ (Skipped' \subseteq Skipped => sk' <= sk)
  BY <1>2, <1>3, AlmostWithin
\* Nothing new is skipped, and nobody falls out of hand.
<1>4. ASSUME Skipped' \subseteq Skipped, faults <= faults',
             Paid' /\ ~Paid => faults < faults'
      PROVE  Losses'
  <2>1. sk \in Nat /\ sk' \in Nat /\ sk' <= sk
    BY <1>3, <1>4
  <2>. QED BY <2>1, <1>4, <1>14 DEF Losses
<1>5. CASE UserSends \/ UserTaps
  <2>1. PICK do \in Command \cup Tap, of \in Prompt \cup {None} : Arrives(do, of)
    BY <1>5, UserStepArrives
  <2>2. Sent' = Sent \cup {n + 1} /\ UNCHANGED <<offset, confirmed, handled, current, faults, at>>
    BY <2>1, ArrivesKeeps DEF Arrives, bot, history
  <2>3. Skipped' \subseteq Skipped
    BY <2>2, <1>0, <1>14, <1>1 DEF Offsets
  <2>. QED BY <1>4, <1>14, <2>2, <2>3 DEF Paid
<1>6. CASE GetUpdates \/ PollFails
  <2>1. /\ UNCHANGED <<Sent, offset, handled, current>> /\ at = "wait" /\ at' # "down"
        /\ faults <= faults' /\ confirmed' = Larger(confirmed, offset)
    BY <1>6, <1>14 DEF GetUpdates, PollFails, history, Fault, Sent
  <2>2. Skipped' \subseteq Skipped
    BY <2>1, <1>14, <1>1, LargerIsLarger
  <2>. QED BY <1>4, <2>1, <2>2 DEF Paid
<1>7. ASSUME NEW u \in Update, Takes(u) PROVE Losses'
  <2>1. /\ UNCHANGED <<Sent, confirmed, handled, faults>> /\ current = None /\ current' = u
        /\ offset' = Larger(offset, u + 1) /\ at' # "down"
        /\ u \in batch /\ \A v \in batch : u <= v
    BY <1>7 DEF Takes, First, Taken, telegram, history, Sent, Shape
  <2>2. offset' \in {offset, u + 1} /\ u \in Nat
    BY <1>0, <1>14, <2>1, LargerIsLarger
  <2>3. ASSUME NEW v \in Skipped' PROVE v \in Skipped
    <3>1. v \in Sent /\ v # u /\ v \notin handled /\ (v < offset' \/ v < confirmed)
      BY <2>1, <1>1
    <3>2. v < offset \/ v < confirmed
      BY <3>1, <2>1, <2>2, <1>0, <1>14 DEF Offsets
    <3>. QED BY <3>1, <3>2, <2>1, <1>0, <1>1 DEF None
  <2>. QED BY <1>4, <1>14, <2>1, <2>3 DEF Paid
<1>8. ASSUME NEW u \in Update, SavingFails(u) PROVE Losses'
  <2>1. /\ UNCHANGED <<Sent, confirmed, handled, current>> /\ current = None
        /\ offset' = Larger(offset, u + 1) /\ at' # "down" /\ faults' = faults + 1
        /\ u \in batch /\ \A v \in batch : u <= v
    BY <1>8 DEF SavingFails, First, Taken, telegram, Fault, Sent, Shape
  <2>2. offset' \in {offset, u + 1} /\ u \in Nat
    BY <1>0, <1>14, <2>1, LargerIsLarger
  <2>3. ASSUME NEW v \in Skipped' PROVE v \in Skipped \cup {u}
    <3>1. v \in Sent /\ v # current /\ v \notin handled /\ (v < offset' \/ v < confirmed)
      BY <2>1, <1>1
    <3>2. v < offset \/ v < confirmed \/ v = u
      BY <3>1, <2>1, <2>2, <1>0, <1>14 DEF Offsets
    <3>. QED BY <3>1, <3>2, <1>1
  <2>4. sk \in Nat /\ sk' \in Nat /\ sk' <= sk + 1
    BY <1>3, <2>3
  <2>. QED BY <2>1, <2>4, <1>14 DEF Losses, Paid
<1>9. CASE Replies
  <2>1. Skipped' \subseteq Skipped
    BY <1>9, <1>0, <1>1 DEF Replies, Sent, None
  <2>. QED BY <1>4, <1>9, <1>14, <2>1 DEF Replies, Paid, Fault
<1>10. CASE Starts
  <2>1. /\ UNCHANGED <<Sent, confirmed, handled, faults>> /\ offset' <= offset /\ offset' \in Nat
        /\ at = "down" /\ at' # "down" /\ current' = None
    BY <1>10 DEF Starts, telegram, history, Sent, Offsets, TypeOK
  <2>2. Skipped' \subseteq Skipped \cup {current}
    BY <2>1, <1>0, <1>14, <1>1
  <2>3. CASE current = None
    <3>1. None \notin Sent
      BY <1>0 DEF None
    <3>2. Skipped' \subseteq Skipped
      BY <2>2, <2>3, <3>1, <2>1, <1>1
    <3>. QED BY <1>4, <1>14, <2>1, <3>2 DEF Paid
  <2>4. CASE current # None
    <3>1. sk \in Nat /\ sk' \in Nat /\ sk' <= sk + 1
      BY <1>3, <2>2
    <3>2. Paid /\ ~Paid'
      BY <2>1, <2>4 DEF Paid
    <3>. QED BY <2>1, <3>1, <3>2, <1>14 DEF Losses
  <2>. QED BY <2>3, <2>4
<1>11. CASE Crash
  <2>1. UNCHANGED <<Sent, offset, confirmed, handled, current>> /\ faults' = faults + 1
    BY <1>11 DEF Crash, telegram, Fault, Sent
  <2>. QED BY <1>4, <1>14, <1>1, <2>1
<1>12. BatchEnds \/ ClearsMarkup \/ Asks \/ Hears \/ Executes \/ SwitchFails \/ RequestFails
       \/ PollerRestarts \/ UNCHANGED vars
       => /\ UNCHANGED <<Sent, confirmed, offset, handled, current>> /\ faults <= faults'
          /\ Paid' => Paid
  BY <1>14 DEF BatchEnds, ClearsMarkup, Asks, Hears, Executes, SwitchFails, RequestFails,
         PollerRestarts, vars, telegram, bot, poller, history, Sent, Paid, Fault
<1>13. ASSUME UNCHANGED <<Sent, confirmed, offset, handled, current>>, faults <= faults',
              Paid' => Paid
       PROVE  Losses'
  BY <1>13, <1>4, <1>1
<1>. QED BY <1>5, <1>6, <1>7, <1>8, <1>9, <1>10, <1>11, <1>12, <1>13 DEF Next, BotStep

-----------------------------------------------------------------------------
(* Once per update. *)

\* A step that executes nothing, tears no file and makes no update pending again.
LEMMA NothingActs ==
  ASSUME ActsLeft, UNCHANGED acted, torn' = torn, \A u \in Update : Pending(u)' => Pending(u),
         TypeOK
  PROVE  ActsLeft'
<1>1. torn \in Nat /\ \A u \in Update : acted[u] \in Nat
  BY DEF TypeOK
<1>. QED BY <1>1 DEF ActsLeft

\* A file cut off is worth one execution more of any update.
LEMMA TearingPays ==
  ASSUME ActsLeft, UNCHANGED acted, torn' = torn + 1, TypeOK
  PROVE  ActsLeft'
<1>1. torn \in Nat /\ \A u \in Update : acted[u] \in Nat
  BY DEF TypeOK
<1>. QED BY <1>1 DEF ActsLeft

\* The update in hand is executed, and with that it is no longer pending.
LEMMA ExecutionSpends ==
  ASSUME ActsLeft, TypeOK, Shape, Offsets, request = "sent", request' \in {"ok", "failed"},
         acted' = [acted EXCEPT ![current] = acted[current] + 1],
         UNCHANGED <<at, file, current, torn>>
  PROVE  ActsLeft'
<1>1. torn \in Nat /\ file \in Nat /\ acted \in [Update -> Nat]
  BY DEF TypeOK
<1>2. current \in Update /\ current < file /\ current \in Nat
  BY SentNumbers, BotAssumption DEF Shape, Offsets, None, Update
<1>3. at # "clear" /\ Pending(current) /\ ~Pending(current)'
  BY <1>1, <1>2 DEF Shape, Pending
<1>4. ASSUME NEW u \in Update, u # current PROVE acted'[u] = acted[u] /\ (Pending(u)' => Pending(u))
  BY <1>1, <1>2, <1>4 DEF Pending
<1>5. acted'[current] = acted[current] + 1
  BY <1>1, <1>2
<1>. QED BY <1>1, <1>2, <1>3, <1>4, <1>5 DEF ActsLeft

LEMMA ActsStep ==
  ASSUME TypeOK, Shape, Offsets, Offsets', ActsLeft, [Next]_vars
  PROVE  ActsLeft'
<1>0. offset \in Nat /\ file \in Nat /\ \A u \in Update : u \in Nat
  BY BotAssumption DEF TypeOK, Update
<1>1. CASE UserSends \/ UserTaps
  <2>1. PICK do \in Command \cup Tap, of \in Prompt \cup {None} : Arrives(do, of)
    BY <1>1, UserStepArrives
  <2>. QED BY <2>1, NothingActs DEF Arrives, bot, poller, history, Pending
<1>2. CASE GetUpdates
  BY <1>2, NothingActs DEF GetUpdates, poller, history, Pending
<1>3. ASSUME NEW u \in Update, Takes(u) PROVE ActsLeft'
  <2>1. /\ file <= offset /\ offset <= u /\ current' = u /\ file' = Larger(offset, u + 1)
        /\ request = "none" /\ request' = "none" /\ torn' = torn /\ acted' = acted
    BY <1>3 DEF Takes, First, Taken, Offsets, Shape, poller, history
  <2>2. offset <= file'
    BY <1>0, <2>1, LargerIsLarger
  <2>3. file' \in Nat
    BY <1>0, <2>1, LargerIsLarger
  <2>4. ASSUME NEW v \in Update, Pending(v)' PROVE Pending(v)
    BY <1>0, <2>1, <2>2, <2>3, <2>4 DEF Pending
  <2>. QED BY <2>1, <2>4, NothingActs
<1>4. CASE BatchEnds
  BY <1>4, NothingActs DEF BatchEnds, poller, history, Pending
<1>5. CASE ClearsMarkup
  BY <1>5, NothingActs DEF ClearsMarkup, poller, history, Pending, Shape
<1>6. CASE Asks
  BY <1>6, NothingActs DEF Asks, bot, Pending
<1>7. CASE Hears
  BY <1>7, NothingActs DEF Hears, poller, history, Pending
<1>8. CASE Replies
  BY <1>8, NothingActs DEF Replies, Pending
<1>9. CASE Starts
  BY <1>9, NothingActs DEF Starts, history, Pending
<1>10. CASE PollFails
  BY <1>10, NothingActs DEF PollFails, poller, history, Pending
<1>11. ASSUME NEW u \in Update, SavingFails(u) PROVE ActsLeft'
  <2>1. UNCHANGED <<acted, current, request>> /\ at = "loop" /\ at' = "wait" /\ request = "none"
    BY <1>11 DEF SavingFails, poller, Shape
  <2>2. CASE UNCHANGED <<file, torn>>
    BY <2>1, <2>2, NothingActs DEF Pending
  <2>. QED BY <1>11, <2>1, <2>2, TearingPays DEF SavingFails
<1>12. CASE Crash
  <2>1. UNCHANGED <<acted, current, request>> /\ at' = "down"
    BY <1>12 DEF Crash, poller
  <2>2. CASE UNCHANGED <<file, torn>>
    BY <2>1, <2>2, NothingActs DEF Pending
  <2>. QED BY <1>12, <2>1, <2>2, TearingPays DEF Crash
<1>13. CASE Executes
  <2>1. CASE update[current].do \in Post
    BY <1>13, <2>1, ExecutionSpends DEF Executes, Acts, bot
  <2>2. CASE update[current].do \notin Post
    BY <1>13, <2>2, NothingActs DEF Executes, bot, Pending
  <2>. QED BY <2>1, <2>2
<1>14. CASE SwitchFails
  BY <1>14, ExecutionSpends DEF SwitchFails, Acts, bot
<1>15. CASE RequestFails
  BY <1>15, NothingActs DEF RequestFails, bot, history, Pending
<1>16. CASE PollerRestarts
  BY <1>16, NothingActs DEF PollerRestarts, bot, history, Pending
<1>17. CASE UNCHANGED vars
  BY <1>17, NothingActs DEF vars, bot, poller, history, Pending
<1>. QED BY <1>1, <1>2, <1>3, <1>4, <1>5, <1>6, <1>7, <1>8, <1>9, <1>10, <1>11, <1>12,
            <1>13, <1>14, <1>15, <1>16, <1>17 DEF Next, BotStep

-----------------------------------------------------------------------------
(* What the users were told. *)

LEMMA ToldStep ==
  ASSUME TypeOK, Shape, InDoubt, ToldIsSo, [Next]_vars
  PROVE  InDoubt' /\ ToldIsSo'
<1>1. CASE UserSends \/ UserTaps
  <2>1. PICK do \in Command \cup Tap, of \in Prompt \cup {None} : Arrives(do, of)
    BY <1>1, UserStepArrives
  <2>2. \A u \in Sent : update'[u] = update[u]
    BY <2>1, ArrivesKeeps
  <2>3. UNCHANGED <<request, current, told, enabled, saved>>
    BY <2>1 DEF Arrives, bot, poller, history
  <2>4. request # "none" => update'[current] = update[current]
    BY <2>2 DEF Shape
  <2>. QED BY <2>3, <2>4 DEF InDoubt, ToldIsSo
<1>2. ASSUME UNCHANGED <<update, told, enabled, saved>>,
             request' = "none" \/ UNCHANGED <<request, current>>
      PROVE  InDoubt' /\ ToldIsSo'
  BY <1>2 DEF InDoubt, ToldIsSo
<1>3. GetUpdates \/ PollFails \/ BatchEnds \/ ClearsMarkup \/ Hears \/ Starts \/ Crash \/ UNCHANGED vars
      => /\ UNCHANGED <<update, told, enabled, saved>>
         /\ request' = "none" \/ UNCHANGED <<request, current>>
  BY DEF GetUpdates, PollFails, BatchEnds, ClearsMarkup, Hears, Starts, Crash, vars, telegram,
         bot, poller, history
<1>4. ASSUME NEW u \in Update, Takes(u) \/ SavingFails(u)
      PROVE  UNCHANGED <<update, told, enabled, saved>> /\ request' = "none"
  BY <1>4 DEF Takes, SavingFails, Shape, telegram, poller, history
<1>5. CASE Asks
  BY <1>5 DEF Asks, telegram, bot, InDoubt, ToldIsSo
<1>6. CASE Replies
  <2>1. UNCHANGED <<enabled, saved>> /\ request' = "none"
    BY <1>6 DEF Replies
  <2>2. CASE update[current].do \in Switches /\ request = "ok"
    BY <1>6, <2>1, <2>2 DEF Replies, InDoubt, ToldIsSo
  <2>3. CASE ~(update[current].do \in Switches /\ request = "ok")
    <3>1. told' = told
      BY <1>6, <2>3 DEF Replies
    <3>. QED BY <2>1, <3>1 DEF InDoubt, ToldIsSo
  <2>. QED BY <2>2, <2>3
<1>7. CASE Executes
  <2>1. UNCHANGED <<update, current, told>> /\ request = "sent" /\ request' = "ok"
    BY <1>7 DEF Executes, telegram, bot
  <2>2. CASE update[current].do \in Switches
    <3>1. enabled' = Switch[update[current].do] /\ saved' = Switch[update[current].do]
      BY <1>7, <2>2 DEF Executes, Saves
    <3>. QED BY <2>1, <2>2, <3>1 DEF InDoubt, ToldIsSo
  <2>3. CASE update[current].do \notin Switches
    <3>1. UNCHANGED <<enabled, saved>>
      BY <1>7, <2>3 DEF Executes
    <3>. QED BY <2>1, <2>3, <3>1 DEF InDoubt, ToldIsSo
  <2>. QED BY <2>2, <2>3
<1>8. CASE SwitchFails
  <2>1. /\ UNCHANGED <<update, current, told>> /\ request = "sent" /\ request' = "failed"
        /\ update[current].do \in Switches
    BY <1>8 DEF SwitchFails, telegram, bot
  <2>. QED BY <2>1 DEF InDoubt, ToldIsSo
<1>9. CASE RequestFails
  BY <1>9 DEF RequestFails, telegram, bot, history, InDoubt, ToldIsSo
<1>10. CASE PollerRestarts
  <2>1. /\ UNCHANGED <<update, current, saved, told>> /\ request' \in {request, "failed"}
        /\ enabled' = (IF saved = "none" THEN DefaultSwitch ELSE saved)
    BY <1>10 DEF PollerRestarts, telegram, bot, history
  <2>2. request' # "none" => request # "none"
    BY <1>10 DEF PollerRestarts
  <2>3. told # "unsure" => enabled' = saved
    BY <2>1 DEF ToldIsSo, TypeOK
  <2>4. request = "ok" /\ update[current].do \in Switches => enabled' = saved
    <3>1. update[current].do \in Switches => Switch[update[current].do] # "none"
      BY SwitchIsOnOff
    <3>. QED BY <2>1, <3>1 DEF InDoubt
  <2>. QED BY <2>1, <2>2, <2>3, <2>4 DEF InDoubt, ToldIsSo
<1>. QED BY <1>1, <1>2, <1>3, <1>4, <1>5, <1>6, <1>7, <1>8, <1>9, <1>10 DEF Next, BotStep

-----------------------------------------------------------------------------
(* The theorems. *)

BotInv == TypeOK /\ Shape /\ Offsets /\ Losses /\ ActsLeft /\ InDoubt /\ ToldIsSo

LEMMA BotStarts ==
  ASSUME Init
  PROVE  BotInv
<1>. USE BotAssumption DEF Init, Sent, None
<1>1. Sent = {} /\ Sent = 1..0
  OBVIOUS
<1>2. Cardinality(Sent) = 0 /\ Cardinality(Skipped) = 0
  BY <1>1, FS_EmptySet DEF Skipped
<1>3. TypeOK
  <2>1. 1..0 \in {1..n : n \in 0..MaxUpdates}
    OBVIOUS
  <2>. QED BY <1>1, <2>1 DEF TypeOK
<1>. HIDE DEF Sent
<1>4. Shape /\ Offsets
  BY <1>1, <1>2 DEF Shape, Offsets
<1>5. Losses /\ ActsLeft
  BY <1>2 DEF Losses, Paid, ActsLeft
<1>6. InDoubt /\ ToldIsSo
  BY DEF InDoubt, ToldIsSo
<1>. QED BY <1>3, <1>4, <1>5, <1>6 DEF BotInv

LEMMA BotInvariant == Spec => []BotInv
<1>1. Init => BotInv
  BY BotStarts
<1>2. BotInv /\ [Next]_vars => BotInv'
  BY TypeStep, ShapeStep, OffsetsStep, LossesStep, ActsStep, ToldStep DEF BotInv
<1>. QED BY <1>1, <1>2, PTL DEF Spec

\* The bot, Telegram's queue, the poller's switch and their history keep their form.
THEOREM BotTypesHold == Spec => []TypeOK
<1>1. BotInv => TypeOK
  BY DEF BotInv
<1>. QED BY <1>1, BotInvariant, PTL

\* However crashes, failed polls and failed writes fall, updates that nobody handles are
\* no more than the faults: Losses, which counts the update a crash is about to lose.
THEOREM FaultsCostOneEach == Spec => []OnlyTheCurrentIsLost
<1>1. BotInv => OnlyTheCurrentIsLost
  <2>. SUFFICES ASSUME BotInv PROVE OnlyTheCurrentIsLost
    OBVIOUS
  <2>1. IsFiniteSet(Sent) /\ Skipped \subseteq Sent
    BY SentNumbers DEF BotInv, Skipped
  <2>2. Cardinality(Skipped) \in Nat
    BY <2>1, FS_Subset, FS_CardinalityType
  <2>3. faults \in Nat
    BY BotAssumption DEF BotInv, TypeOK
  <2>. QED BY <2>2, <2>3 DEF BotInv, Losses, OnlyTheCurrentIsLost
<1>. QED BY <1>1, BotInvariant, PTL

\* An update is executed once, and once more for each time the offset's file was cut
\* off: ActsLeft, which counts an execution still to come.
THEOREM ActsOncePerUpdate == Spec => []OncePerUpdate
<1>1. BotInv => OncePerUpdate
  <2>1. ASSUME BotInv, NEW u \in Update PROVE acted[u] <= 1 + torn
    <3>1. acted[u] \in Nat /\ torn \in Nat
      BY <2>1 DEF BotInv, TypeOK
    <3>. QED BY <2>1, <3>1 DEF BotInv, ActsLeft
  <2>. QED BY <2>1 DEF OncePerUpdate
<1>. QED BY <1>1, BotInvariant, PTL

\* Whatever restarts or fails after it, the last answer about delivery stays true: while
\* another is under way nobody has been told (InDoubt).
THEOREM ToldStaysSo == Spec => []ToldIsSo
<1>1. BotInv => ToldIsSo
  BY DEF BotInv
<1>. QED BY <1>1, BotInvariant, PTL
=============================================================================
