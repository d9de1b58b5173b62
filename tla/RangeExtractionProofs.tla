------------------------ MODULE RangeExtractionProofs ------------------------
(***************************************************************************)
(* Proofs about RangeExtraction, for every number of workers, messages,    *)
(* tables, versions and faults.                                            *)
(*                                                                         *)
(* The inductive invariant says of each worker (WorkerInv) what its        *)
(* program counter entitles it to: how much of its range it has read, that *)
(* what it read can become records, which tables it has filled, and that   *)
(* it only acknowledges what is complete or given up.  A worker's claim    *)
(* mentions shared state (the messages sent, the rows, the messages given  *)
(* up), but only that it contains something; shared state only grows, so   *)
(* no step of another worker can disturb it (WorkerFrame).                 *)
(***************************************************************************)
EXTENDS RangeExtraction, TLAPS

USE MaxVersionAssumption, TableCountAssumption, MaxFaultsAssumption,
    UndecodableAssumption, InboxAssumption, NoMessageAssumption

\* The message is in every table.
Complete(m) == \A t \in Table : Versions(m) \subseteq rows[t]

\* The range was read to its end, or nothing of it was read and it counts as
\* given up; the tables in front hold what was read, and this table its start.
Publishing(w) ==
    /\ \/ seen[w] = Length(job[w])
       \/ seen[w] = 0 /\ job[w] \in givenUp
    /\ \A t \in Table : t < tab[w] => Read(w) \subseteq rows[t]
    /\ out[w] \subseteq rows[tab[w]]

WorkerInv(w) ==
    /\ workerPc[w] \in {"open", "stream", "publish", "ack", "nack"} =>
        job[w] \in sent
    /\ workerPc[w] \in {"stopped", "loop", "pull", "open"} => seen[w] = 0
    /\ workerPc[w] \in {"stopped", "loop", "pull", "open", "stream"} =>
        tab[w] = 1 /\ out[w] = {}
    /\ workerPc[w] \in {"stream", "publish"} =>
        seen[w] <= Length(job[w]) /\ Read(w) \cap Undecodable = {}
    /\ workerPc[w] = "publish" => Publishing(w)
    /\ workerPc[w] = "ack" => job[w] \in givenUp \/ Complete(job[w])

\* The publishers of ranges send no empty range.
SentInOrder == \A m \in sent : m.start <= m.end

ExtractionIInv ==
    /\ ExtractionTypeOK
    /\ SentInOrder
    /\ \A w \in Worker : WorkerInv(w)
    /\ AckedIsComplete
    /\ FailedRangePublishesNothing
    /\ TablesFillInOrder

-----------------------------------------------------------------------------
(* Types *)

LEMMA LengthTyped ==
    ASSUME NEW m \in Message
    PROVE  Length(m) \in Int /\ Length(m) <= MaxVersion + 1
BY DEF Message, Length, Version

\* A worker's step keeps the types.
LEMMA WorkerTypeStep ==
    ASSUME ExtractionTypeOK, \A u \in Worker : WorkerInv(u), NEW w \in Worker,
           WorkerStep(w)
    PROVE  ExtractionTypeOK'
<1> USE
   DEF ExtractionTypeOK, subscription, attempt, Goto, Fault, Release, Stop, Table
<1>1. CASE StartWorker(w) BY <1>1 DEF StartWorker
<1>2. CASE LoopTest(w) BY <1>2 DEF LoopTest
<1>3. CASE LoopExit(w) BY <1>3 DEF LoopExit
<1>4. CASE \E m \in ready : Pull(w, m) BY <1>4 DEF Pull
<1>5. CASE PullNothing(w) BY <1>5 DEF PullNothing
<1>6. CASE OpenStream(w) BY <1>6 DEF OpenStream
<1>7. CASE StreamFails(w) BY <1>7 DEF StreamFails
<1>8. CASE \E k \in 0 .. MaxVersion + 1 : Respond(w, k)
  <2>1. PICK k \in 0 .. MaxVersion + 1 : Respond(w, k) BY <1>8
  <2>2. job[w] \in sent BY <2>1 DEF Respond, WorkerInv
  <2>3. job[w] \in Message BY <2>2 DEF sent
  <2>4. seen[w] + k \in 0 .. MaxVersion + 1
    BY <2>1, <2>3, LengthTyped DEF Respond
  <2> QED BY <2>1, <2>3, <2>4 DEF Respond
<1>9. CASE BadTransaction(w) BY <1>9 DEF BadTransaction
<1>10. CASE Exhausted(w)
  <2>1. job[w] \in sent BY <1>10 DEF Exhausted, WorkerInv
  <2> QED BY <1>10, <2>1 DEF Exhausted, sent
<1>11. CASE \E v \in Version : PublishRow(w, v)
  <2>1. PICK v \in Version : PublishRow(w, v) BY <1>11
  <2> QED BY <2>1 DEF PublishRow
<1>12. CASE TableDone(w)
  <2>1. CASE tab[w] < TableCount
    <3>1. tab[w] + 1 \in 1 .. TableCount BY <2>1
    <3>2. /\ tab' = [tab EXCEPT ![w] = tab[w] + 1]
          /\ out' = [out EXCEPT ![w] = {}]
          /\ UNCHANGED <<subscription, rows, givenUp, faults, workerPc,
                         terminated,
                         job, seen>>
      BY <1>12, <2>1 DEF TableDone
    <3>3. tab' \in [Worker -> Table] BY <3>1, <3>2
    <3> QED BY <3>2, <3>3
  <2>2. CASE ~ (tab[w] < TableCount) BY <1>12, <2>2 DEF TableDone
  <2> QED BY <2>1, <2>2
<1>13. CASE Ack(w)
  <2>1. job[w] \in sent BY <1>13 DEF Ack, WorkerInv
  <2> QED BY <1>13, <2>1 DEF Ack, sent
<1>14. CASE AckLost(w) BY <1>14 DEF AckLost
<1>15. CASE Nack(w) BY <1>15 DEF Nack
<1>16. CASE NackLost(w) BY <1>16 DEF NackLost
<1>17. CASE SigTerm(w) BY <1>17 DEF SigTerm
<1>18. CASE Kill(w) BY <1>18 DEF Kill
<1> QED BY <1>1, <1>2, <1>3, <1>4, <1>5, <1>6, <1>7, <1>8, <1>9, <1>10, <1>11,
           <1>12, <1>13, <1>14, <1>15, <1>16, <1>17, <1>18 DEF WorkerStep

\* A step of the subscription keeps the types.
LEMMA SubscriptionTypeStep ==
    ASSUME ExtractionTypeOK,
           (\E m \in Inbox : Arrive(m)) \/ (\E m \in leased : Expire(m))
    PROVE  ExtractionTypeOK'
BY DEF ExtractionTypeOK, Arrive, Expire, attempt, Table

-----------------------------------------------------------------------------
(* Shared state grows *)

\* What another worker may rely on.
Grows ==
    /\ sent \subseteq sent'
    /\ givenUp \subseteq givenUp'
    /\ \A t \in Table : rows[t] \subseteq rows'[t]

\* The subscription moves messages about and accepts new ones.
LEMMA SubscriptionGrows ==
    ASSUME (\E m \in Inbox : Arrive(m)) \/ (\E m \in leased : Expire(m))
    PROVE  Grows /\ UNCHANGED <<acked, rows, givenUp>>
<1>1. ASSUME NEW m \in Inbox, Arrive(m)
      PROVE  Grows /\ UNCHANGED <<acked, rows, givenUp>>
  BY <1>1 DEF Arrive, Grows, sent
<1>2. ASSUME NEW m \in leased, Expire(m)
      PROVE  Grows /\ UNCHANGED <<acked, rows, givenUp>>
  BY <1>2 DEF Expire, Grows, sent
<1> QED BY <1>1, <1>2

\* A worker only moves messages about, gives ranges up and adds rows.
LEMMA WorkerGrows ==
    ASSUME ExtractionTypeOK, \A u \in Worker : WorkerInv(u), NEW w \in Worker,
           WorkerStep(w)
    PROVE  Grows /\ sent' = sent
<1> USE DEF Grows, sent, subscription
<1>1. CASE StartWorker(w) BY <1>1 DEF StartWorker
<1>2. CASE LoopTest(w) BY <1>2 DEF LoopTest
<1>3. CASE LoopExit(w) BY <1>3 DEF LoopExit
<1>4. CASE \E m \in ready : Pull(w, m) BY <1>4 DEF Pull
<1>5. CASE PullNothing(w) BY <1>5 DEF PullNothing
<1>6. CASE OpenStream(w) BY <1>6 DEF OpenStream
<1>7. CASE StreamFails(w) BY <1>7 DEF StreamFails
<1>8. CASE \E k \in 0 .. MaxVersion + 1 : Respond(w, k) BY <1>8 DEF Respond
<1>9. CASE BadTransaction(w) BY <1>9 DEF BadTransaction
<1>10. CASE Exhausted(w) BY <1>10 DEF Exhausted
<1>11. CASE \E v \in Version : PublishRow(w, v) BY <1>11 DEF PublishRow, ExtractionTypeOK
<1>12. CASE TableDone(w) BY <1>12 DEF TableDone
<1>13. CASE Ack(w) BY <1>13 DEF Ack, WorkerInv
<1>14. CASE AckLost(w) BY <1>14 DEF AckLost
<1>15. CASE Nack(w) BY <1>15 DEF Nack
<1>16. CASE NackLost(w) BY <1>16 DEF NackLost
<1>17. CASE SigTerm(w) BY <1>17 DEF SigTerm
<1>18. CASE Kill(w) BY <1>18 DEF Kill
<1> QED BY <1>1, <1>2, <1>3, <1>4, <1>5, <1>6, <1>7, <1>8, <1>9, <1>10, <1>11,
           <1>12, <1>13, <1>14, <1>15, <1>16, <1>17, <1>18 DEF WorkerStep

-----------------------------------------------------------------------------
(* The claims of the workers *)

\* What a worker claims survives every step that leaves its own variables
\* alone and lets the shared state grow.
LEMMA WorkerFrame ==
    ASSUME ExtractionTypeOK, NEW u \in Worker, WorkerInv(u), Grows,
           workerPc'[u] = workerPc[u], job'[u] = job[u],
           seen'[u] = seen[u], tab'[u] = tab[u], out'[u] = out[u]
    PROVE  WorkerInv(u)'
<1>1. Read(u)' = Read(u) BY DEF Read
<1>2. (workerPc[u] = "publish" => Publishing(u))'
  BY <1>1 DEF WorkerInv, Publishing, Grows, ExtractionTypeOK
<1>3. (workerPc[u] = "ack" => job[u] \in givenUp \/ Complete(job[u]))'
  BY DEF WorkerInv, Complete, Grows
<1> QED BY <1>1, <1>2, <1>3 DEF WorkerInv, Grows

\* A worker that is idle again claims nothing.
LEMMA IdleInv ==
    ASSUME ExtractionTypeOK, NEW w \in Worker,
           workerPc'[w] \in {"stopped", "loop", "pull"},
           seen'[w] = 0, tab'[w] = 1, out'[w] = {}
    PROVE  WorkerInv(w)'
BY DEF WorkerInv

\* The versions of a message, counted from its start.
LEMMA ReadWhole ==
    ASSUME ExtractionTypeOK, NEW w \in Worker, job[w] \in Message,
           seen[w] = Length(job[w])
    PROVE  Read(w) = Versions(job[w])
BY DEF Read, Versions, Length, Message, Version

\* A response extends what was read by versions that can become records.
LEMMA RespondInv ==
    ASSUME ExtractionTypeOK, SentInOrder, NEW w \in Worker, WorkerInv(w),
           NEW k \in 0 .. MaxVersion + 1, Respond(w, k), Grows
    PROVE  WorkerInv(w)'
<1> USE DEF Goto
<1>1. workerPc[w] = "stream" /\ job[w] \in sent BY DEF Respond, WorkerInv
<1>2. job[w] \in Message /\ job[w].start <= job[w].end
  BY <1>1 DEF sent, SentInOrder, ExtractionTypeOK
<1>3. /\ seen'[w] = seen[w] + k
      /\ UNCHANGED <<job, tab, out>>
      /\ tab[w] = 1 /\ out[w] = {}
  BY <1>1 DEF Respond, WorkerInv, ExtractionTypeOK
<1>4. seen'[w] <= Length(job[w])
  BY <1>1, <1>2, <1>3, LengthTyped DEF Respond, WorkerInv, ExtractionTypeOK
<1>5. Read(w)' \cap Undecodable = {}
  <2> SUFFICES ASSUME NEW v \in Read(w)' PROVE v \notin Undecodable
    OBVIOUS
  <2>1. v \in job[w].start .. job[w].start + seen[w] + k - 1
    BY <1>2, <1>3 DEF Read, ExtractionTypeOK, Message, Version
  <2>2. CASE v < job[w].start + seen[w]
    BY <1>1, <1>2, <2>1, <2>2
       DEF WorkerInv, Read, ExtractionTypeOK, Message, Version
  <2>3. CASE v >= job[w].start + seen[w]
    <3> DEFINE i == v - job[w].start - seen[w]
    <3>1. i \in 0 .. k - 1
      BY <1>2, <2>1, <2>3 DEF ExtractionTypeOK, Message, Version
    <3>2. v = job[w].start + seen[w] + i
      BY <1>2, <2>1 DEF ExtractionTypeOK, Message, Version
    <3> HIDE DEF i
    <3> QED BY <3>1, <3>2 DEF Respond
  <2> QED BY <1>2, <2>1, <2>2, <2>3 DEF ExtractionTypeOK, Message, Version
<1>6. CASE ~ AtEnd(job[w], seen[w] + k)
  <2>1. workerPc'[w] = "stream" BY <1>1, <1>6 DEF Respond
  <2> QED BY <1>1, <1>3, <1>4, <1>5, <2>1 DEF WorkerInv, Grows
<1>7. CASE AtEnd(job[w], seen[w] + k)
  <2>1. workerPc'[w] = "publish" BY <1>1, <1>7 DEF Respond, ExtractionTypeOK
  <2>2. seen'[w] = Length(job[w]) \/ (seen'[w] = 0 /\ job[w] \in givenUp')
    BY <1>3, <1>7 DEF AtEnd, Respond
  <2>4. Publishing(w)'
    BY <1>2, <1>3, <2>2 DEF Publishing, Table, ExtractionTypeOK
  <2> QED BY <1>1, <1>3, <1>4, <1>5, <2>1, <2>4 DEF WorkerInv, Grows
<1> QED BY <1>6, <1>7

\* A row more: what the current table has of the range grows by one version.
LEMMA PublishRowInv ==
    ASSUME ExtractionTypeOK, NEW w \in Worker, WorkerInv(w),
           NEW v \in Version, PublishRow(w, v), Grows
    PROVE  WorkerInv(w)'
<1>1. /\ workerPc[w] = "publish" /\ UNCHANGED <<workerPc, job, seen, tab>>
      /\ out'[w] = out[w] \cup {v}
      /\ rows'[tab[w]] = rows[tab[w]] \cup {v}
  BY DEF PublishRow, ExtractionTypeOK
<1>2. Read(w)' = Read(w) BY <1>1 DEF Read
<1>3. \A t \in Table : t < tab[w] => Read(w) \subseteq rows'[t]
  BY <1>1 DEF WorkerInv, Publishing, Grows
<1>4. Publishing(w)' BY <1>1, <1>2, <1>3 DEF WorkerInv, Publishing, Grows
<1> QED BY <1>1, <1>2, <1>4 DEF WorkerInv, Grows

\* A table is done when it holds what was read; after the last one all do.
LEMMA TableDoneInv ==
    ASSUME ExtractionTypeOK, NEW w \in Worker, WorkerInv(w), TableDone(w),
           Grows
    PROVE  WorkerInv(w)'
<1> USE DEF Goto
<1>1. /\ workerPc[w] = "publish" /\ UNCHANGED <<job, seen, rows, givenUp>>
      /\ out[w] = Read(w)
  BY DEF TableDone
<1>2. job[w] \in sent /\ job[w] \in Message /\ job[w] \in sent'
  BY <1>1 DEF WorkerInv, sent, ExtractionTypeOK, Grows
<1>3. \A t \in Table : t <= tab[w] => Read(w) \subseteq rows[t]
  <2> SUFFICES ASSUME NEW t \in Table, t <= tab[w] PROVE Read(w) \subseteq rows[t]
    OBVIOUS
  <2>1. CASE t < tab[w] BY <1>1, <2>1 DEF WorkerInv, Publishing
  <2>2. CASE t = tab[w] BY <1>1, <2>2 DEF WorkerInv, Publishing
  <2> QED BY <2>1, <2>2 DEF Table, ExtractionTypeOK
<1>4. Read(w)' = Read(w) BY <1>1 DEF Read
<1>5. CASE tab[w] < TableCount
  <2>1. UNCHANGED workerPc /\ tab'[w] = tab[w] + 1 /\ out'[w] = {}
    BY <1>5 DEF TableDone, ExtractionTypeOK
  <2>3. \A t \in Table : t < tab'[w] => Read(w) \subseteq rows[t]
    BY <1>3, <2>1 DEF Table, ExtractionTypeOK
  <2>4. 0 <= seen[w] BY DEF ExtractionTypeOK
  <2>5. Publishing(w)'
    BY <1>1, <1>4, <2>1, <2>3, <2>4 DEF WorkerInv, Publishing
  <2> QED BY <1>1, <1>2, <1>4, <2>1, <2>5 DEF WorkerInv
<1>6. CASE ~ (tab[w] < TableCount)
  <2>1. workerPc'[w] = "ack" BY <1>6 DEF TableDone, ExtractionTypeOK
  <2>2. \A t \in Table : Read(w) \subseteq rows[t]
    BY <1>3, <1>6 DEF ExtractionTypeOK, Table
  <2>3. job[w] \in givenUp \/ Complete(job[w])
    <3>1. CASE seen[w] = Length(job[w])
      BY <1>2, <2>2, <3>1, ReadWhole DEF Complete
    <3>2. CASE seen[w] # Length(job[w]) BY <1>1, <3>2 DEF WorkerInv, Publishing
    <3> QED BY <3>1, <3>2
  <2> QED BY <1>1, <1>2, <2>1, <2>3 DEF WorkerInv, Complete
<1> QED BY <1>5, <1>6

\* Whatever a worker does, its claim afterwards is what its new program
\* counter entitles it to.
LEMMA WorkerStepInv ==
    ASSUME ExtractionTypeOK, SentInOrder, NEW w \in Worker, WorkerInv(w),
           WorkerStep(w), Grows
    PROVE  WorkerInv(w)'
<1> USE DEF subscription, attempt, Goto, Release, Stop
<1>1. CASE StartWorker(w)
  BY <1>1, IdleInv DEF StartWorker, ExtractionTypeOK, WorkerInv
<1>2. CASE LoopTest(w)
  BY <1>2, IdleInv DEF LoopTest, ExtractionTypeOK, WorkerInv
<1>3. CASE LoopExit(w) BY <1>3, IdleInv DEF LoopExit, ExtractionTypeOK
<1>4. CASE \E m \in ready : Pull(w, m)
  <2>1. PICK m \in ready : Pull(w, m) BY <1>4
  <2>2. /\ workerPc[w] = "pull" /\ workerPc'[w] = "open" /\ job'[w] = m /\ m \in sent
        /\ seen'[w] = seen[w] /\ tab'[w] = tab[w] /\ out'[w] = out[w]
    BY <2>1 DEF Pull, ExtractionTypeOK, sent
  <2> QED BY <2>2 DEF WorkerInv, Grows
<1>5. CASE PullNothing(w)
  BY <1>5, IdleInv DEF PullNothing, ExtractionTypeOK, WorkerInv
<1>6. CASE OpenStream(w)
  <2>1. /\ workerPc[w] = "open" /\ workerPc'[w] = "stream" /\ job'[w] = job[w]
        /\ seen'[w] = seen[w] /\ tab'[w] = tab[w] /\ out'[w] = out[w]
    BY <1>6 DEF OpenStream, ExtractionTypeOK
  <2>2. job[w] \in sent /\ seen[w] = 0 BY <2>1 DEF WorkerInv
  <2>3. job[w] \in Message /\ job[w].start <= job[w].end
    BY <2>2 DEF sent, SentInOrder, ExtractionTypeOK
  <2>4. 0 <= Length(job[w]) BY <2>3 DEF Length, Message, Version
  <2>5. Read(w)' = {} BY <2>1, <2>2, <2>3 DEF Read, Message, Version
  <2> QED BY <2>1, <2>2, <2>4, <2>5 DEF WorkerInv, Grows
<1>7. CASE StreamFails(w)
  <2>1. /\ workerPc[w] \in {"open", "stream"} /\ workerPc'[w] = "nack" /\ job'[w] = job[w]
    BY <1>7 DEF StreamFails, ExtractionTypeOK
  <2> QED BY <2>1 DEF WorkerInv, Grows
<1>8. CASE \E k \in 0 .. MaxVersion + 1 : Respond(w, k) BY <1>8, RespondInv
<1>9. CASE BadTransaction(w)
  <2>1. /\ workerPc[w] = "stream" /\ workerPc'[w] = "nack" /\ job'[w] = job[w]
    BY <1>9 DEF BadTransaction, ExtractionTypeOK
  <2> QED BY <2>1 DEF WorkerInv, Grows
<1>10. CASE Exhausted(w)
  <2>1. /\ workerPc[w] = "stream" /\ workerPc'[w] = "ack" /\ job'[w] = job[w]
        /\ job[w] \in givenUp'
    BY <1>10 DEF Exhausted, ExtractionTypeOK
  <2> QED BY <2>1 DEF WorkerInv, Grows
<1>11. CASE \E v \in Version : PublishRow(w, v) BY <1>11, PublishRowInv
<1>12. CASE TableDone(w) BY <1>12, TableDoneInv
<1>13. CASE Ack(w) BY <1>13, IdleInv DEF Ack, ExtractionTypeOK
<1>14. CASE AckLost(w) BY <1>14, IdleInv DEF AckLost, ExtractionTypeOK
<1>15. CASE Nack(w) BY <1>15, IdleInv DEF Nack, ExtractionTypeOK
<1>16. CASE NackLost(w) BY <1>16, IdleInv DEF NackLost, ExtractionTypeOK
<1>17. CASE SigTerm(w) BY <1>17, WorkerFrame DEF SigTerm
<1>18. CASE Kill(w) BY <1>18, IdleInv DEF Kill, ExtractionTypeOK
<1> QED BY <1>1, <1>2, <1>3, <1>4, <1>5, <1>6, <1>7, <1>8, <1>9, <1>10, <1>11,
           <1>12, <1>13, <1>14, <1>15, <1>16, <1>17, <1>18 DEF WorkerStep

\* A worker's step leaves the variables of the others alone.
LEMMA OthersUntouched ==
    ASSUME ExtractionTypeOK, NEW w \in Worker, NEW u \in Worker, u # w,
           WorkerStep(w)
    PROVE  /\ workerPc'[u] = workerPc[u] /\ job'[u] = job[u]
           /\ seen'[u] = seen[u] /\ tab'[u] = tab[u] /\ out'[u] = out[u]
<1> USE DEF ExtractionTypeOK, subscription, attempt, Goto, Release, Stop
<1>1. CASE StartWorker(w) BY <1>1 DEF StartWorker
<1>2. CASE LoopTest(w) BY <1>2 DEF LoopTest
<1>3. CASE LoopExit(w) BY <1>3 DEF LoopExit
<1>4. CASE \E m \in ready : Pull(w, m) BY <1>4 DEF Pull
<1>5. CASE PullNothing(w) BY <1>5 DEF PullNothing
<1>6. CASE OpenStream(w) BY <1>6 DEF OpenStream
<1>7. CASE StreamFails(w) BY <1>7 DEF StreamFails
<1>8. CASE \E k \in 0 .. MaxVersion + 1 : Respond(w, k) BY <1>8 DEF Respond
<1>9. CASE BadTransaction(w) BY <1>9 DEF BadTransaction
<1>10. CASE Exhausted(w) BY <1>10 DEF Exhausted
<1>11. CASE \E v \in Version : PublishRow(w, v) BY <1>11 DEF PublishRow
<1>12. CASE TableDone(w) BY <1>12 DEF TableDone
<1>13. CASE Ack(w) BY <1>13 DEF Ack
<1>14. CASE AckLost(w) BY <1>14 DEF AckLost
<1>15. CASE Nack(w) BY <1>15 DEF Nack
<1>16. CASE NackLost(w) BY <1>16 DEF NackLost
<1>17. CASE SigTerm(w) BY <1>17 DEF SigTerm
<1>18. CASE Kill(w) BY <1>18 DEF Kill
<1> QED BY <1>1, <1>2, <1>3, <1>4, <1>5, <1>6, <1>7, <1>8, <1>9, <1>10, <1>11,
           <1>12, <1>13, <1>14, <1>15, <1>16, <1>17, <1>18 DEF WorkerStep

-----------------------------------------------------------------------------
(* The rows and the acknowledgements *)

\* What a worker's step can do to the rows, the acknowledged messages and the
\* messages given up: at most one of three things.
LEMMA WorkerEffect ==
    ASSUME ExtractionTypeOK, NEW w \in Worker, WorkerStep(w)
    PROVE  \/ \E v \in Version : PublishRow(w, v)
           \/ Ack(w)
           \/ UNCHANGED <<acked, rows>>
<1> USE DEF subscription, attempt
<1> SUFFICES ASSUME ~ \E v \in Version : PublishRow(w, v), ~ Ack(w)
             PROVE  UNCHANGED <<acked, rows>>
  OBVIOUS
<1> QED
  BY
     DEF WorkerStep, StartWorker, LoopTest, LoopExit, Pull, PullNothing, OpenStream,
         StreamFails, Respond, BadTransaction, Exhausted, TableDone, AckLost,
         Nack, NackLost, SigTerm, Kill

\* A published row belongs to a range that was read to its end, all of which
\* can become records, and the table in front has the row already.
LEMMA PublishedRow ==
    ASSUME ExtractionTypeOK, NEW w \in Worker, WorkerInv(w),
           NEW v \in Version, PublishRow(w, v)
    PROVE  /\ job[w] \in sent
           /\ v \in Versions(job[w])
           /\ Versions(job[w]) \cap Undecodable = {}
           /\ tab[w] > 1 => v \in rows[tab[w] - 1]
           /\ rows' = [rows EXCEPT ![tab[w]] = @ \cup {v}]
<1>1. /\ workerPc[w] = "publish" /\ v \in Read(w)
      /\ rows' = [rows EXCEPT ![tab[w]] = @ \cup {v}]
  BY DEF PublishRow
<1>2. job[w] \in sent /\ job[w] \in Message
  BY <1>1 DEF WorkerInv, sent, ExtractionTypeOK
<1>3. seen[w] = Length(job[w])
  <2>1. seen[w] # 0 BY <1>1, <1>2 DEF Read, Message, Version
  <2> QED BY <1>1, <2>1 DEF WorkerInv, Publishing
<1>4. Read(w) = Versions(job[w]) BY <1>2, <1>3, ReadWhole
<1>5. Read(w) \cap Undecodable = {} BY <1>1 DEF WorkerInv
<1>6. tab[w] > 1 => v \in rows[tab[w] - 1]
  <2> SUFFICES ASSUME tab[w] > 1 PROVE Read(w) \subseteq rows[tab[w] - 1]
    BY <1>1
  <2>1. tab[w] - 1 \in Table /\ tab[w] - 1 < tab[w]
    BY DEF ExtractionTypeOK, Table
  <2> QED BY <1>1, <2>1 DEF WorkerInv, Publishing
<1> QED BY <1>1, <1>2, <1>4, <1>5, <1>6

\* The messages stay in order.
LEMMA SentInOrderStep ==
    ASSUME ExtractionTypeOK, SentInOrder, \A u \in Worker : WorkerInv(u),
           [ExtractionNext]_extractionVars
    PROVE  SentInOrder'
<1>1. ASSUME NEW m \in Inbox, Arrive(m) PROVE SentInOrder'
  BY <1>1 DEF SentInOrder, Arrive, sent
<1>2. ASSUME NEW m \in leased, Expire(m) PROVE SentInOrder'
  BY <1>2 DEF SentInOrder, Expire, sent
<1>3. ASSUME NEW w \in Worker, WorkerStep(w) PROVE SentInOrder'
  BY <1>3, WorkerGrows DEF SentInOrder
<1>4. CASE UNCHANGED extractionVars
  BY <1>4 DEF extractionVars, subscription, SentInOrder, sent
<1> QED BY <1>1, <1>2, <1>3, <1>4 DEF ExtractionNext

\* The claims of all workers survive every step.
LEMMA WorkersStep ==
    ASSUME ExtractionTypeOK, SentInOrder, \A u \in Worker : WorkerInv(u),
           [ExtractionNext]_extractionVars
    PROVE  \A u \in Worker : WorkerInv(u)'
<1> SUFFICES ASSUME NEW u \in Worker PROVE WorkerInv(u)'
  OBVIOUS
<1>1. CASE (\E m \in Inbox : Arrive(m)) \/ (\E m \in leased : Expire(m))
  <2>1. Grows BY <1>1, SubscriptionGrows
  <2>2. UNCHANGED <<workerPc, job, seen, tab, out>> BY <1>1 DEF Arrive,
                    Expire, attempt
  <2> QED BY <2>1, <2>2, WorkerFrame
<1>2. ASSUME NEW w \in Worker, WorkerStep(w) PROVE WorkerInv(u)'
  <2>1. Grows BY <1>2, WorkerGrows
  <2>2. CASE u = w BY <1>2, <2>1, <2>2, WorkerStepInv
  <2>3. CASE u # w BY <1>2, <2>1, <2>3, OthersUntouched, WorkerFrame
  <2> QED BY <2>2, <2>3
<1>3. CASE UNCHANGED extractionVars
  <2>1. UNCHANGED <<workerPc, job, seen, tab, out>> /\ Grows
    BY <1>3 DEF extractionVars, workers, subscription, attempt, Grows, sent
  <2> QED BY <2>1, WorkerFrame
<1> QED BY <1>1, <1>2, <1>3 DEF ExtractionNext

\* The properties of the rows and the acknowledgements survive a step that
\* leaves both alone.
LEMMA RowsFrame ==
    ASSUME Grows, UNCHANGED <<acked, rows>>
    PROVE  /\ AckedIsComplete => AckedIsComplete'
           /\ FailedRangePublishesNothing => FailedRangePublishesNothing'
           /\ TablesFillInOrder => TablesFillInOrder'
BY DEF Grows, AckedIsComplete, FailedRangePublishesNothing, TablesFillInOrder

\* A published row disturbs none of them.
LEMMA PublishRowSafe ==
    ASSUME ExtractionIInv, NEW w \in Worker, NEW v \in Version,
           PublishRow(w, v), Grows
    PROVE  AckedIsComplete' /\ FailedRangePublishesNothing' /\ TablesFillInOrder'
<1>1. /\ job[w] \in sent
      /\ v \in Versions(job[w])
      /\ Versions(job[w]) \cap Undecodable = {}
      /\ tab[w] > 1 => v \in rows[tab[w] - 1]
      /\ rows' = [rows EXCEPT ![tab[w]] = @ \cup {v}]
  BY PublishedRow DEF ExtractionIInv
<1>2. rows \in [Table -> SUBSET Version] /\ tab[w] \in Table
  BY DEF ExtractionIInv, ExtractionTypeOK
<1>3. UNCHANGED <<acked, givenUp>> /\ sent' = sent
  BY DEF PublishRow, subscription, sent
<1>4. \A t \in Table : rows'[t] = IF t = tab[w] THEN rows[t] \cup {v} ELSE rows[t]
  BY <1>1, <1>2
<1>5. AckedIsComplete'
  BY <1>3, <1>4 DEF ExtractionIInv, AckedIsComplete
<1>6. FailedRangePublishesNothing'
  BY <1>1, <1>3, <1>4 DEF ExtractionIInv, FailedRangePublishesNothing
<1>7. TablesFillInOrder'
  <2> SUFFICES ASSUME NEW t \in Table, t > 1, NEW x \in rows'[t]
               PROVE  x \in rows'[t - 1]
    BY DEF TablesFillInOrder
  <2>1. t - 1 \in Table BY DEF Table
  <2>2. CASE t = tab[w] /\ x = v BY <1>1, <1>4, <2>1, <2>2
  <2>3. CASE ~ (t = tab[w] /\ x = v)
    BY <1>4, <2>1, <2>3, ZenonT(30) DEF ExtractionIInv, TablesFillInOrder
  <2> QED BY <2>2, <2>3
<1> QED BY <1>5, <1>6, <1>7

\* Only what is complete or given up is acknowledged.
LEMMA AckSafe ==
    ASSUME ExtractionIInv, NEW w \in Worker, Ack(w), Grows
    PROVE  AckedIsComplete' /\ FailedRangePublishesNothing' /\ TablesFillInOrder'
<1>1. /\ workerPc[w] = "ack" /\ acked' = acked \cup {job[w]}
      /\ UNCHANGED <<rows, givenUp>>
  BY DEF Ack
<1>2. job[w] \in givenUp \/ Complete(job[w])
  BY <1>1 DEF ExtractionIInv, WorkerInv
<1>3. AckedIsComplete'
  BY <1>1, <1>2 DEF ExtractionIInv, AckedIsComplete, Complete
<1> QED BY <1>1, <1>3
   DEF ExtractionIInv, Grows, FailedRangePublishesNothing, TablesFillInOrder

LEMMA RowsStep ==
    ASSUME ExtractionIInv, [ExtractionNext]_extractionVars
    PROVE  AckedIsComplete' /\ FailedRangePublishesNothing' /\ TablesFillInOrder'
<1>1. CASE (\E m \in Inbox : Arrive(m)) \/ (\E m \in leased : Expire(m))
  BY <1>1, SubscriptionGrows, RowsFrame DEF ExtractionIInv
<1>2. ASSUME NEW w \in Worker, WorkerStep(w)
      PROVE  AckedIsComplete' /\ FailedRangePublishesNothing' /\ TablesFillInOrder'
  <2>1. Grows BY <1>2, WorkerGrows DEF ExtractionIInv
  <2>2. ExtractionTypeOK BY DEF ExtractionIInv
  <2>3. CASE \E v \in Version : PublishRow(w, v) BY <2>1, <2>3, PublishRowSafe
  <2>4. CASE Ack(w) BY <2>1, <2>4, AckSafe
  <2>5. CASE UNCHANGED <<acked, rows>> BY <2>1, <2>5,
                         RowsFrame DEF ExtractionIInv
  <2> QED BY <1>2, <2>2, <2>3, <2>4, <2>5, WorkerEffect
<1>3. CASE UNCHANGED extractionVars
  <2>1. Grows /\ UNCHANGED <<acked, rows>>
    BY <1>3 DEF extractionVars, subscription, Grows, sent
  <2> QED BY <2>1, RowsFrame DEF ExtractionIInv
<1> QED BY <1>1, <1>2, <1>3 DEF ExtractionNext

-----------------------------------------------------------------------------
(* The theorems *)

\* A step keeps the types.
LEMMA ExtractionTypeStep ==
    ASSUME ExtractionTypeOK, \A u \in Worker : WorkerInv(u),
           [ExtractionNext]_extractionVars
    PROVE  ExtractionTypeOK'
<1>1. ASSUME NEW w \in Worker, WorkerStep(w) PROVE ExtractionTypeOK'
  BY <1>1, WorkerTypeStep
<1>2. CASE UNCHANGED extractionVars
  BY <1>2 DEF extractionVars, workers, subscription, attempt, ExtractionTypeOK
<1> QED BY <1>1, <1>2, SubscriptionTypeStep DEF ExtractionNext

LEMMA ExtractionInitInv == ExtractionInit => ExtractionIInv
<1> SUFFICES ASSUME ExtractionInit PROVE ExtractionIInv
  OBVIOUS
<1> USE DEF ExtractionInit
<1>1. ExtractionTypeOK BY DEF ExtractionTypeOK, Table, Version
<1>2. \A w \in Worker : WorkerInv(w) BY DEF WorkerInv
<1>3. SentInOrder BY DEF SentInOrder, sent
<1>4. AckedIsComplete BY DEF AckedIsComplete
<1>5. FailedRangePublishesNothing BY DEF FailedRangePublishesNothing
<1>6. TablesFillInOrder BY DEF TablesFillInOrder, Table
<1> QED BY <1>1, <1>2, <1>3, <1>4, <1>5, <1>6 DEF ExtractionIInv

LEMMA ExtractionStepInv ==
    ExtractionIInv /\ [ExtractionNext]_extractionVars => ExtractionIInv'
<1> SUFFICES ASSUME ExtractionIInv, [ExtractionNext]_extractionVars PROVE ExtractionIInv'
  OBVIOUS
<1>1. ExtractionTypeOK' BY ExtractionTypeStep DEF ExtractionIInv
<1>2. SentInOrder' BY SentInOrderStep DEF ExtractionIInv
<1>3. \A w \in Worker : WorkerInv(w)' BY WorkersStep DEF ExtractionIInv
<1>4. AckedIsComplete' /\ FailedRangePublishesNothing' /\ TablesFillInOrder'
  BY RowsStep
<1> QED BY <1>1, <1>2, <1>3, <1>4 DEF ExtractionIInv

\* The inductive invariant holds in every reachable state.
THEOREM ExtractionInvariance == ExtractionSpec => []ExtractionIInv
BY ExtractionInitInv, ExtractionStepInv, PTL DEF ExtractionSpec

\* Every variable of the workers and their subscription keeps its type.
THEOREM ExtractionTypeCorrect == ExtractionSpec => []ExtractionTypeOK
<1>1. ExtractionIInv => ExtractionTypeOK BY DEF ExtractionIInv
<1> QED BY <1>1, ExtractionInvariance, PTL

\* A range that will not be delivered again is in every table, unless a stream
\* that ended early made a worker give it up.
THEOREM AckedComplete == ExtractionSpec => []AckedIsComplete
<1>1. ExtractionIInv => AckedIsComplete BY DEF ExtractionIInv
<1> QED BY <1>1, ExtractionInvariance, PTL

\* No row of a range that fails extraction is published.
THEOREM FailuresPublishNothing ==
    ExtractionSpec => []FailedRangePublishesNothing
<1>1. ExtractionIInv => FailedRangePublishesNothing BY DEF ExtractionIInv
<1> QED BY <1>1, ExtractionInvariance, PTL

\* A version in one table is in all the tables in front of it.
THEOREM TablesInOrder == ExtractionSpec => []TablesFillInOrder
<1>1. ExtractionIInv => TablesFillInOrder BY DEF ExtractionIInv
<1> QED BY <1>1, ExtractionInvariance, PTL

-----------------------------------------------------------------------------
(* Refinement *)

\* A new message is a Send of the delivery specification.
LEMMA ArriveSends ==
    ASSUME ExtractionTypeOK, NEW m \in Inbox, Arrive(m)
    PROVE  Delivery!Send
<1>1. m \notin sent /\ m \in Message BY DEF Arrive
<1>2. sent' = sent \cup {m} /\ UNCHANGED <<acked, rows, givenUp>>
  BY DEF Arrive, sent
<1> QED BY <1>1, <1>2
        DEF Delivery!Send, Delivery!Message, Delivery!Version, Message, Version

\* A published row is a WriteRow.
LEMMA PublishWrites ==
    ASSUME ExtractionIInv, NEW w \in Worker, NEW v \in Version,
           PublishRow(w, v)
    PROVE  Delivery!WriteRow
<1>1. /\ job[w] \in sent
      /\ v \in Versions(job[w])
      /\ Versions(job[w]) \cap Undecodable = {}
      /\ tab[w] > 1 => v \in rows[tab[w] - 1]
      /\ rows' = [rows EXCEPT ![tab[w]] = @ \cup {v}]
  BY PublishedRow DEF ExtractionIInv
<1>2. tab[w] \in Table BY DEF ExtractionIInv, ExtractionTypeOK
<1>3. UNCHANGED <<acked, givenUp>> /\ sent' = sent
  BY DEF PublishRow, subscription, sent
<1>4. tab[w] = 1 \/ v \in rows[tab[w] - 1] BY <1>1, <1>2 DEF Table
<1> QED BY <1>1, <1>2, <1>3, <1>4
        DEF Delivery!WriteRow, Delivery!Table, Delivery!Decodable,
            Delivery!Versions, Versions, Table

\* An ack is a Settle.
LEMMA AckSettles ==
    ASSUME ExtractionIInv, NEW w \in Worker, Ack(w)
    PROVE  Delivery!Settle
<1>1. /\ workerPc[w] = "ack" /\ acked' = acked \cup {job[w]}
      /\ UNCHANGED <<rows, givenUp>>
  BY DEF Ack
<1>2. job[w] \in sent /\ (job[w] \in givenUp \/ Complete(job[w]))
  BY <1>1 DEF ExtractionIInv, WorkerInv
<1>3. sent' = sent BY <1>2 DEF Ack, sent
<1> QED BY <1>1, <1>2, <1>3
        DEF Delivery!Settle, Delivery!Complete, Delivery!Table,
            Delivery!Versions, Versions, Table, Complete

\* Every other step of a worker gives up its range or is not seen at all.
LEMMA OtherSteps ==
    ASSUME ExtractionIInv, NEW w \in Worker, WorkerStep(w), UNCHANGED <<acked,
           rows>>
    PROVE  Delivery!GiveUp \/ UNCHANGED Delivery!vars
<1>1. sent' = sent BY WorkerGrows DEF ExtractionIInv
<1>2. \/ UNCHANGED givenUp
      \/ job[w] \in sent /\ givenUp' = givenUp \cup {job[w]}
  <2> USE DEF ExtractionIInv, subscription, attempt
  <2>1. CASE \E k \in 0 .. MaxVersion + 1 : Respond(w, k)
    BY <2>1 DEF Respond, WorkerInv
  <2>2. CASE Exhausted(w) BY <2>2 DEF Exhausted, WorkerInv
  <2>3. CASE ~ Exhausted(w) /\ ~ \E k \in 0 .. MaxVersion + 1 : Respond(w, k)
    BY <2>3
       DEF WorkerStep, StartWorker, LoopTest, LoopExit, Pull, PullNothing, OpenStream,
           StreamFails, BadTransaction, PublishRow, TableDone, Ack, AckLost,
           Nack, NackLost, SigTerm, Kill
  <2> QED BY <2>1, <2>2, <2>3
<1> QED BY <1>1, <1>2 DEF Delivery!GiveUp, Delivery!vars

\* A step of the implementation is a step of the delivery specification or
\* leaves its variables alone.
LEMMA StepRefinesDelivery ==
    ExtractionIInv /\ [ExtractionNext]_extractionVars => [Delivery!Next]_Delivery!vars
<1> SUFFICES ASSUME ExtractionIInv, [ExtractionNext]_extractionVars
             PROVE  Delivery!Next \/ UNCHANGED Delivery!vars
  OBVIOUS
<1> USE DEF Delivery!Next
<1>1. ASSUME NEW m \in Inbox, Arrive(m) PROVE Delivery!Send
  BY <1>1, ArriveSends DEF ExtractionIInv
<1>2. ASSUME NEW m \in leased, Expire(m) PROVE UNCHANGED Delivery!vars
  BY <1>2 DEF Expire, Delivery!vars, sent
<1>3. ASSUME NEW w \in Worker, WorkerStep(w)
      PROVE  Delivery!Next \/ UNCHANGED Delivery!vars
  <2>1. ExtractionTypeOK BY DEF ExtractionIInv
  <2>2. CASE \E v \in Version : PublishRow(w, v) BY <2>2, PublishWrites
  <2>3. CASE Ack(w) BY <2>3, AckSettles
  <2>4. CASE UNCHANGED <<acked, rows>> BY <1>3, <2>4, OtherSteps
  <2> QED BY <1>3, <2>1, <2>2, <2>3, <2>4, WorkerEffect
<1>4. CASE UNCHANGED extractionVars
  BY <1>4 DEF extractionVars, subscription, Delivery!vars, sent
<1> QED BY <1>1, <1>2, <1>3, <1>4 DEF ExtractionNext

\* The workers and their subscription implement the delivery promise, through
\* every crash, expiry, redelivery and lost acknowledgement.
THEOREM DeliveryRefinement == ExtractionSpec => ImplementsDelivery
<1>1. ExtractionInit => Delivery!Init
  BY DEF ExtractionInit, Delivery!Init, Delivery!Table, Table, sent
<1> QED BY <1>1, StepRefinesDelivery, ExtractionInvariance, PTL
        DEF ExtractionSpec, ImplementsDelivery, Delivery!Spec
=============================================================================
