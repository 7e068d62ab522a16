--------------------------- MODULE RunQueueProofs ---------------------------
(***************************************************************************)
(* Proofs about RunQueue, for any number of runs, messages, Crons and      *)
(* sessions: a message becomes at most one run, and the messages of a run  *)
(* are sent in the order of their positions.                               *)
(***************************************************************************)
EXTENDS RunQueue, WellFoundedInduction, TLAPS

Posted(i) == item[i].status # "none"

(* Messages are queued one after the other, and each position is below the number
   of its message. *)
InTurn ==
  /\ \A i \in Item : Posted(i) => \A j \in Item : j < i => Posted(j)
  /\ \A i \in Item : Posted(i) => item[i].position < i - NTurn

(* A message keeps the run it was queued behind, and its session. *)
OfItsRun ==
  \A i \in Item :
    IF Posted(i)
    THEN /\ item[i].run \in Run
         /\ run[item[i].run] # "none"
         /\ item[i].session = SessionOfRun(item[i].run)
    ELSE item[i] = NoItem

(* A message has been sent once if its run exists, and never otherwise. *)
SentIsRun ==
  \A i \in Item : /\ sent[i] = IF run[i] = "none" THEN 0 ELSE 1
                  /\ run[i] # "none" => Posted(i)

(* Of a run, what a Cron has selected is not overtaking a queued message. *)
SelectedIsFirst ==
  \A c \in Cron : \A j \in drain[c] :
    /\ Posted(j)
    /\ \A i \in Item : item[i].run = item[j].run /\ item[i].position < item[j].position
         => item[i].status # "queued"

QueueInv == TypeOK /\ InTurn /\ OfItsRun /\ SentIsRun /\ SelectedIsFirst /\ SentInOrder

-----------------------------------------------------------------------------
(* The positions of a run's messages *)

(* Of some numbers between -1 and a bound, Max is the largest. *)
LEMMA MaxIsUpper ==
  ASSUME NEW n \in Nat, NEW S \in SUBSET (-1..n), S # {}
  PROVE  Max(S) \in S /\ \A y \in S : y <= Max(S)
<1> DEFINE R == OpToRel(<, Nat)
           T == {n - x : x \in S}
<1>1. IsWellFoundedOn(R, Nat)
  <2>1. IsWellFoundedOn(OpToRel(<, Nat), Nat)
    BY NatLessThanWellFounded
  <2> QED BY <2>1
<1>2. \A x, y \in Nat : <<x, y>> \in R <=> x < y
  BY DEF OpToRel
<1>3. \A x \in S : x \in Int /\ n - x \in Nat
  OBVIOUS
<1>4. PICK m \in S : \A y \in S : y <= m
  <2>1. T # {}
    <3>1. PICK x \in S : TRUE
      OBVIOUS
    <3> QED BY <3>1
  <2>2. T \subseteq Nat
    BY <1>3
  <2> HIDE DEF R
  <2>3. PICK t \in T : \A u \in T : ~(<<u, t>> \in R)
    BY <1>1, <2>1, <2>2, WFMin
  <2>4. PICK m \in S : t = n - m
    OBVIOUS
  <2>5. ASSUME NEW y \in S PROVE y <= m
    <3>1. n - y \in T /\ n - y \in Nat /\ n - m \in Nat
      BY <1>3
    <3>2. ~(n - y < n - m)
      BY <1>2, <2>3, <2>4, <3>1
    <3> QED BY <1>3, <3>2
  <2> QED BY <2>5
<1>5. \E x \in S : \A y \in S : x >= y
  BY <1>3, <1>4
<1>6. Max(S) \in S /\ \A y \in S : Max(S) >= y
  BY <1>5 DEF Max
<1> QED BY <1>3, <1>6

(* A message queued next comes after every other of its run, and its position is
   below its number. *)
LEMMA NextPositionIsLast ==
  ASSUME QueueInv, NEW r \in Run, NEW i \in Item, ~Posted(i)
  PROVE  /\ NextPosition(r) \in 0..NItem
         /\ NextPosition(r) < i - NTurn
         /\ \A j \in Item : item[j].run = r => item[j].position < NextPosition(r)
<1> DEFINE S == {-1} \cup {item[j].position : j \in {j \in Item : item[j].run = r}}
<1>1. /\ NTurn \in Nat /\ NItem \in Nat /\ 0 \notin Run
      /\ i \in Int /\ i > NTurn /\ i <= NTurn + NItem
  BY BoundsAssumption DEF Run, Turn, Item
<1>2. ASSUME NEW j \in Item, item[j].run = r
      PROVE  item[j].position \in Nat /\ item[j].position < i - NTurn - 1 
  <2>1. Posted(j)
    BY <1>1, <1>2 DEF QueueInv, OfItsRun, NoItem
  <2>2. j # i /\ ~(i < j)
    BY <2>1 DEF QueueInv, InTurn
  <2>3. j \in Int /\ j < i
    BY <1>1, <2>2 DEF Item
  <2>4. item[j].position < j - NTurn /\ item[j].position \in Nat
    BY <1>1, <2>1 DEF QueueInv, InTurn, TypeOK
  <2> QED BY <1>1, <2>3, <2>4
<1>3. S \in SUBSET (-1..NItem) /\ S # {}
  BY <1>1, <1>2 DEF QueueInv, TypeOK
<1> HIDE DEF S
<1>4. Max(S) \in S /\ \A y \in S : y <= Max(S)
  BY <1>1, <1>3, MaxIsUpper
<1>5. NextPosition(r) = Max(S) + 1
  BY DEF NextPosition, S
<1>6. Max(S) \in -1..NItem /\ Max(S) < i - NTurn - 1
  <2>1. Max(S) \in -1..NItem
    BY <1>3, <1>4
  <2>2. CASE Max(S) = -1
    BY <1>1, <2>1, <2>2
  <2>3. CASE Max(S) # -1
    <3>1. PICK j \in Item : item[j].run = r /\ Max(S) = item[j].position
      BY <1>4, <2>3 DEF S
    <3> QED BY <1>2, <2>1, <3>1
  <2> QED BY <2>2, <2>3
<1>7. ASSUME NEW j \in Item, item[j].run = r PROVE item[j].position < Max(S) + 1
  <2>1. item[j].position \in S
    BY <1>7 DEF S
  <2> QED BY <1>2, <1>4, <1>6, <1>7, <2>1
<1> QED BY <1>1, <1>5, <1>6, <1>7

-----------------------------------------------------------------------------
(* Steps that send nothing *)

(* Messages keep their run, session and position, and none is queued again. *)
RowsStay ==
  \A i \in Item :
    /\ item'[i].run = item[i].run
    /\ item'[i].session = item[i].session
    /\ item'[i].position = item[i].position
    /\ item'[i].status # "none" <=> item[i].status # "none"
    /\ item'[i].status = "queued" => item[i].status = "queued"
    /\ item[i].status = "none" => item'[i] = item[i]

RunsStay == \A r \in Run : run[r] # "none" => run'[r] # "none"

(* The run a message was queued behind keeps its session. *)
LEMMA RowsStayKeep ==
  ASSUME QueueInv, RowsStay, RunsStay
  PROVE  InTurn' /\ OfItsRun'
<1>1. \A r \in Run : SessionOfRun(r)' = SessionOfRun(r)
  BY DEF RowsStay, SessionOfRun, Run
<1>2. InTurn'
  BY DEF QueueInv, InTurn, RowsStay, Posted
<1>3. OfItsRun'
  BY <1>1 DEF QueueInv, OfItsRun, RowsStay, RunsStay, Posted
<1> QED BY <1>2, <1>3

(* What a Cron has selected stays first, as no message is queued before it. *)
LEMMA SelectionStays ==
  ASSUME QueueInv, RowsStay, \A c \in Cron : drain'[c] \subseteq drain[c]
  PROVE  SelectedIsFirst'
<1> SUFFICES ASSUME NEW c \in Cron, NEW j \in drain'[c]
             PROVE  /\ Posted(j)'
                    /\ \A i \in Item : item'[i].run = item'[j].run
                         /\ item'[i].position < item'[j].position => item'[i].status # "queued"
  BY DEF SelectedIsFirst
<1>1. j \in drain[c] /\ j \in Item
  BY DEF QueueInv, TypeOK
<1> QED BY <1>1 DEF QueueInv, SelectedIsFirst, RowsStay, Posted

(* A request, or a drain that is given up, sends nothing. *)
LEMMA QuietKeeps ==
  ASSUME QueueInv, TypeOK', RowsStay, RunsStay,
         \A c \in Cron : drain'[c] \subseteq drain[c],
         \A i \in Item : run'[i] # "none" => run[i] # "none",
         \A i \in Item : item'[i].status = "sent" => item[i].status = "sent",
         UNCHANGED sent
  PROVE  QueueInv'
<1>1. SentIsRun'
  BY DEF QueueInv, SentIsRun, RowsStay, RunsStay, Posted, Run
<1>2. SentInOrder'
  BY DEF QueueInv, SentInOrder, RowsStay
<1> QED BY <1>1, <1>2, RowsStayKeep, SelectionStays DEF QueueInv

(* Runs move and rows stay as they are. *)
LEMMA RunMovesKeeps ==
  ASSUME QueueInv, NEW r \in Run, NEW s \in Active \cup Terminal, Write(r, s),
         r \in Item => run[r] # "none",
         pressed' \subseteq Run, UNCHANGED <<item, drain, readOnly, sent>>
  PROVE  QueueInv'
<1>1. TypeOK'
  BY DEF QueueInv, TypeOK, Write
<1>2. RowsStay
  BY DEF RowsStay
<1>3. RunsStay /\ \A i \in Item : run'[i] # "none" => run[i] # "none"
  BY DEF QueueInv, TypeOK, Write, RunsStay, Active, Terminal, Run
<1> QED BY <1>1, <1>2, <1>3, QuietKeeps

(* A turn is admitted, or a run written by its engine or retried. *)
LEMMA RunStepKeeps ==
  ASSUME QueueInv,
         \/ \E t \in Turn : CreateTurn(t)
         \/ \E r \in Run : Retry(r) \/ \E s \in {"working", "stopped", "ended"} : SetRunStatus(r, s)
  PROVE  QueueInv'
<1>1. pressed \subseteq Run
  BY DEF QueueInv, TypeOK
<1>2. Turn \subseteq Run /\ \A t \in Turn : t \notin Item
  BY BoundsAssumption DEF Run, Turn, Item
<1>3. ASSUME NEW t \in Turn, CreateTurn(t) PROVE QueueInv'
  <2>1. Write(t, "working") /\ pressed' \subseteq Run /\ UNCHANGED <<item, drain, readOnly, sent>>
    BY <1>1, <1>3 DEF CreateTurn
  <2> QED BY <1>2, <2>1, RunMovesKeeps DEF Active
<1>4. ASSUME NEW r \in Run, Retry(r) PROVE QueueInv'
  <2>1. Write(r, "working") /\ pressed' \subseteq Run /\ UNCHANGED <<item, drain, readOnly, sent>>
    BY <1>1, <1>4 DEF Retry
  <2>2. run[r] # "none"
    BY <1>4 DEF Retry, Terminal
  <2> QED BY <2>1, <2>2, RunMovesKeeps DEF Active
<1>5. ASSUME NEW r \in Run, NEW s \in {"working", "stopped", "ended"}, SetRunStatus(r, s)
      PROVE  QueueInv'
  <2>1. Write(r, s) /\ pressed' \subseteq Run /\ UNCHANGED <<item, drain, readOnly, sent>>
    BY <1>1, <1>5 DEF SetRunStatus
  <2>2. run[r] # "none" /\ s \in Active \cup Terminal
    BY <1>5 DEF SetRunStatus, Active, Terminal
  <2> QED BY <2>1, <2>2, RunMovesKeeps
<1> QED BY <1>3, <1>4, <1>5

(* Stop parks the messages of its run. *)
LEMMA StopKeeps ==
  ASSUME QueueInv, NEW r \in Run, Stop(r)
  PROVE  QueueInv'
<1>1. \A i \in Item : \/ item'[i] = item[i]
                      \/ /\ item[i].status = "queued"
                         /\ item'[i] = [item[i] EXCEPT !.status = "paused"]
  BY DEF Stop
<1>2. \A i \in Item : item[i] = [status |-> item[i].status, run |-> item[i].run,
                                 session |-> item[i].session, position |-> item[i].position]
  BY DEF QueueInv, TypeOK
<1>3. RowsStay /\ \A i \in Item : item'[i].status = "sent" => item[i].status = "sent"
  BY <1>1, <1>2 DEF RowsStay
<1>4. \A q \in Run : run'[q] = IF q = r THEN "stopping" ELSE run[q]
  BY DEF Stop, Write, QueueInv, TypeOK
<1>5. RunsStay /\ \A i \in Item : run'[i] # "none" => run[i] # "none"
  BY <1>4 DEF Stop, Active, RunsStay, Run
<1>6. item' \in [Item -> [status : {"none", "queued", "paused", "sent", "removed"},
                          run : Run \cup {0}, session : Session \cup {0}, position : 0..NItem]]
  BY DEF Stop, QueueInv, TypeOK
<1>7. TypeOK'
  BY <1>6 DEF Stop, Write, QueueInv, TypeOK, Active
<1> QED BY <1>3, <1>5, <1>7, QuietKeeps DEF Stop

LEMMA RemoveQueueItemKeeps ==
  ASSUME QueueInv, NEW i \in Item, RemoveQueueItem(i)
  PROVE  QueueInv'
<1>1. \A j \in Item : item'[j] = IF j = i THEN [item[j] EXCEPT !.status = "removed"] ELSE item[j]
  BY DEF RemoveQueueItem, QueueInv, TypeOK
<1>2. \A j \in Item : item[j] = [status |-> item[j].status, run |-> item[j].run,
                                 session |-> item[j].session, position |-> item[j].position]
  BY DEF QueueInv, TypeOK
<1>3. RowsStay /\ \A j \in Item : item'[j].status = "sent" => item[j].status = "sent"
  BY <1>1, <1>2 DEF RowsStay, RemoveQueueItem
<1>4. TypeOK'
  BY DEF RemoveQueueItem, QueueInv, TypeOK
<1>5. RunsStay /\ UNCHANGED <<run, drain, sent>>
  BY DEF RunsStay, RemoveQueueItem
<1> QED BY <1>3, <1>4, <1>5, QuietKeeps

LEMMA NothingMovesKeeps ==
  ASSUME QueueInv, TypeOK', \A c \in Cron : drain'[c] \subseteq drain[c],
         UNCHANGED <<run, item, sent>>
  PROVE  QueueInv'
<1>1. RowsStay /\ RunsStay
  BY DEF RowsStay, RunsStay
<1> QED BY <1>1, QuietKeeps

(* A member leaves, a drain is refused or lost, or nothing happens. *)
LEMMA RemoveMemberKeeps ==
  ASSUME QueueInv, NEW s \in Removable, RemoveMember(s)
  PROVE  QueueInv'
<1>1. TypeOK'
  BY RemovableAssumption DEF RemoveMember, QueueInv, TypeOK
<1> QED BY <1>1, NothingMovesKeeps DEF RemoveMember

LEMMA DrainAbortKeeps ==
  ASSUME QueueInv, NEW c \in Cron, DrainAbort(c)
  PROVE  QueueInv'
<1>1. TypeOK'
  BY DEF DrainAbort, QueueInv, TypeOK
<1>2. \A d \in Cron : drain'[d] \subseteq drain[d]
  BY DEF DrainAbort, QueueInv, TypeOK
<1> QED BY <1>1, <1>2, NothingMovesKeeps DEF DrainAbort

LEMMA StutterKeeps ==
  ASSUME QueueInv, UNCHANGED vars
  PROVE  QueueInv'
<1>1. TypeOK'
  BY DEF vars, QueueInv, TypeOK
<1> QED BY <1>1, NothingMovesKeeps DEF vars

-----------------------------------------------------------------------------
(* A message is queued *)

(* It comes after the others of its run: it is nothing that a message already sent,
   or selected, has overtaken. *)
LEMMA QueueMessageKeeps ==
  ASSUME QueueInv, NEW r \in Run, NEW i \in Item, QueueMessage(r, i)
  PROVE  QueueInv'
<1> DEFINE row == [status |-> ItemStatus(r), run |-> r,
                   session |-> SessionOfRun(r), position |-> NextPosition(r)]
<1>1. \A j \in Item : item'[j] = IF j = i THEN row ELSE item[j]
  BY DEF QueueMessage, QueueInv, TypeOK
<1>2. ~Posted(i) /\ run[r] # "none" /\ \A j \in Item : j < i => Posted(j)
  BY DEF QueueMessage, Posted
<1>3. /\ row.status \in {"queued", "paused"} /\ row.run = r
      /\ row.session = SessionOfRun(r) /\ row.position = NextPosition(r)
  BY DEF ItemStatus
<1>4. /\ NextPosition(r) \in 0..NItem
      /\ NextPosition(r) < i - NTurn
      /\ \A j \in Item : item[j].run = r => item[j].position < NextPosition(r)
  BY <1>2, NextPositionIsLast
<1>5. SessionOfRun(r) \in Session \cup {0}
  BY DEF SessionOfRun, Session, Run, QueueInv, TypeOK
<1>6. TypeOK'
  <2>1. row \in [status : {"none", "queued", "paused", "sent", "removed"},
                 run : Run \cup {0}, session : Session \cup {0}, position : 0..NItem]
    BY <1>4, <1>5 DEF ItemStatus
  <2> QED BY <2>1 DEF QueueMessage, QueueInv, TypeOK
<1>7. UNCHANGED <<run, drain, sent>>
  BY DEF QueueMessage
<1>8. run[i] = "none"
  BY <1>2 DEF QueueInv, SentIsRun
<1>9. \A j \in Item : Posted(j)' <=> j = i \/ Posted(j)
  BY <1>1, <1>3 DEF Posted
<1> HIDE DEF row
<1>10. InTurn'
  <2>1. \A j, k \in Item : j = i \/ Posted(j) => (k < j => k = i \/ Posted(k))
    BY <1>2 DEF QueueInv, InTurn
  <2>2. \A j \in Item : j = i \/ Posted(j) => item'[j].position < j - NTurn
    BY <1>1, <1>3, <1>4 DEF QueueInv, InTurn
  <2> QED BY <1>9, <2>1, <2>2 DEF InTurn
<1>11. OfItsRun'
  <2>1. \A q \in Run : run[q] # "none" => SessionOfRun(q)' = SessionOfRun(q)
    BY <1>1, <1>8 DEF SessionOfRun, Run
  <2>2. ASSUME NEW j \in Item
        PROVE  (IF Posted(j) THEN /\ item[j].run \in Run
                                  /\ run[item[j].run] # "none"
                                  /\ item[j].session = SessionOfRun(item[j].run)
                             ELSE item[j] = NoItem)'
    <3>1. CASE j = i
      <4>1. /\ item'[j].run = r /\ item'[j].session = SessionOfRun(r)
            /\ r \in Run /\ run'[r] # "none" /\ SessionOfRun(r)' = SessionOfRun(r)
        BY <1>1, <1>2, <1>3, <1>7, <2>1, <3>1
      <4>2. Posted(j)'
        BY <1>9, <3>1
      <4> QED BY <4>1, <4>2
    <3>2. CASE j # i /\ Posted(j)
      <4>1. /\ item'[j] = item[j] /\ item[j].run \in Run /\ run'[item[j].run] # "none"
            /\ item[j].session = SessionOfRun(item[j].run)
        BY <1>1, <1>7, <3>2 DEF QueueInv, OfItsRun
      <4>2. \A q \in Run : q = item[j].run => SessionOfRun(q)' = SessionOfRun(q)
        BY <1>7, <2>1, <4>1
      <4> QED BY <1>9, <3>2, <4>1, <4>2
    <3>3. CASE j # i /\ ~Posted(j)
      BY <1>1, <1>9, <3>3 DEF QueueInv, OfItsRun, NoItem
    <3> QED BY <3>1, <3>2, <3>3
  <2> QED BY <2>2 DEF OfItsRun
<1>12. SentIsRun'
  BY <1>7, <1>9 DEF QueueInv, SentIsRun
<1>13. \A j, k \in Item : Posted(k) /\ item'[j].run = item'[k].run
                            /\ item'[j].position < item'[k].position => j # i
  <2> SUFFICES ASSUME NEW k \in Item, Posted(k), item'[k].run = r, k # i
               PROVE  ~(NextPosition(r) < item'[k].position)
    BY <1>1, <1>2, <1>3
  <2>1. item[k].position < NextPosition(r) /\ item[k].position \in Nat
    BY <1>1, <1>4 DEF QueueInv, TypeOK
  <2> QED BY <1>1, <1>4, <2>1
<1>14. SelectedIsFirst'
  <2> SUFFICES ASSUME NEW c \in Cron, NEW j \in drain'[c]
               PROVE  /\ Posted(j)'
                      /\ \A k \in Item : item'[k].run = item'[j].run
                           /\ item'[k].position < item'[j].position => item'[k].status # "queued"
    BY DEF SelectedIsFirst
  <2>1. j \in drain[c] /\ j \in Item /\ Posted(j) /\ j # i
    BY <1>2, <1>7 DEF QueueInv, TypeOK, SelectedIsFirst
  <2> QED BY <1>1, <1>9, <1>13, <2>1 DEF QueueInv, SelectedIsFirst
<1>15. SentInOrder'
  <2> SUFFICES ASSUME NEW k \in Item, NEW j \in Item, item'[k].run = item'[j].run,
                      item'[k].position < item'[j].position, item'[k].status = "queued",
                      item'[j].status = "sent"
               PROVE  FALSE
    BY DEF SentInOrder
  <2>1. j # i
    BY <1>1, <1>3
  <2>2. Posted(j)
    BY <1>1, <2>1 DEF Posted
  <2>3. k # i
    BY <1>13, <2>2
  <2> QED BY <1>1, <2>1, <2>3 DEF QueueInv, SentInOrder
<1> QED BY <1>6, <1>10, <1>11, <1>12, <1>14, <1>15 DEF QueueInv

-----------------------------------------------------------------------------
(* The drain *)

(* The first of a session, of the first of a page of all that may be sent, is the
   first of its run. *)
LEMMA PickIsFirst ==
  ASSUME QueueInv, NEW page, NEW picks, Page(page), Picks(page, picks),
         NEW j \in picks, NEW i \in Item, item[i].run = item[j].run,
         item[i].position < item[j].position
  PROVE  item[i].status # "queued"
<1> SUFFICES ASSUME item[i].status = "queued" PROVE FALSE
  OBVIOUS
<1>1. j \in page /\ j \in Eligible
  BY DEF Page, Picks
<1>2. j \in Item /\ item[j].status = "queued"
  BY <1>1 DEF Eligible
<1>3. item[i].session = item[j].session
  BY <1>2 DEF QueueInv, OfItsRun, Posted
<1>4. i \in Eligible
  BY <1>1, <1>3 DEF Eligible
<1>5. item[i].position \in Nat /\ item[j].position \in Nat
  BY <1>2 DEF QueueInv, TypeOK
<1>6. CASE i \in page
  BY <1>3, <1>5, <1>6 DEF Picks
<1>7. CASE i \notin page
  BY <1>1, <1>4, <1>5, <1>7 DEF Page
<1> QED BY <1>6, <1>7

LEMMA DrainSelectKeeps ==
  ASSUME QueueInv, NEW c \in Cron, DrainSelect(c)
  PROVE  QueueInv'
<1>1. PICK page \in SUBSET Eligible : \E picks \in SUBSET page :
        /\ Page(page) /\ Picks(page, picks)
        /\ drain' = [drain EXCEPT ![c] = picks]
  BY DEF DrainSelect
<1>2. PICK picks \in SUBSET page : /\ Page(page) /\ Picks(page, picks)
                                   /\ drain' = [drain EXCEPT ![c] = picks]
  BY <1>1
<1>3. picks \subseteq Item /\ \A j \in picks : Posted(j)
  BY <1>2 DEF Eligible, Posted
<1>4. UNCHANGED <<run, item, readOnly, pressed, sent>>
  BY DEF DrainSelect
<1>5. TypeOK'
  BY <1>2, <1>3, <1>4 DEF QueueInv, TypeOK
<1>6. RowsStay /\ RunsStay
  BY <1>4 DEF RowsStay, RunsStay
<1>7. InTurn' /\ OfItsRun'
  BY <1>6, RowsStayKeep
<1>8. SentIsRun' /\ SentInOrder'
  BY <1>4 DEF QueueInv, SentIsRun, SentInOrder, Posted
<1>9. SelectedIsFirst'
  <2> SUFFICES ASSUME NEW d \in Cron, NEW j \in drain'[d]
               PROVE  /\ Posted(j)
                      /\ \A i \in Item : item[i].run = item[j].run
                           /\ item[i].position < item[j].position => item[i].status # "queued"
    BY <1>4 DEF SelectedIsFirst, Posted
  <2>1. CASE d = c
    <3>1. j \in picks
      BY <1>2, <2>1 DEF QueueInv, TypeOK
    <3> QED BY <1>2, <1>3, <3>1, PickIsFirst
  <2>2. CASE d # c
    <3>1. j \in drain[d]
      BY <1>2, <2>2 DEF QueueInv, TypeOK
    <3> QED BY <3>1 DEF QueueInv, SelectedIsFirst
  <2> QED BY <2>1, <2>2
<1> QED BY <1>5, <1>7, <1>8, <1>9 DEF QueueInv

LEMMA DrainCommitKeeps ==
  ASSUME QueueInv, NEW c \in Cron, DrainCommit(c)
  PROVE  QueueInv'
<1>1. drain[c] \subseteq Item /\ \A i \in drain[c] : run[i] = "none" /\ Posted(i)
  BY DEF QueueInv, TypeOK, DrainCommit, Insertable, SelectedIsFirst
<1>2. \A r \in Run : run'[r] = IF r \in drain[c] THEN "working" ELSE run[r]
  BY DEF DrainCommit
<1>3. \A i \in Item : item'[i] = IF i \in drain[c] THEN [item[i] EXCEPT !.status = "sent"]
                                                   ELSE item[i]
  BY DEF DrainCommit
<1>4. \A i \in Item : item[i] = [status |-> item[i].status, run |-> item[i].run,
                                 session |-> item[i].session, position |-> item[i].position]
  BY DEF QueueInv, TypeOK
<1>5. RowsStay
  BY <1>1, <1>3, <1>4 DEF RowsStay, Posted
<1>6. RunsStay
  BY <1>2 DEF RunsStay
<1>7. \A i \in Item : sent'[i] = IF i \in drain[c] THEN sent[i] + 1 ELSE sent[i]
  BY DEF DrainCommit
<1>8. SentIsRun'
  <2>1. ASSUME NEW i \in Item
        PROVE  /\ sent'[i] = IF run'[i] = "none" THEN 0 ELSE 1
               /\ run'[i] # "none" => Posted(i)'
    <3>1. i \in Run /\ (Posted(i)' <=> Posted(i))
      BY <1>5 DEF Run, RowsStay, Posted
    <3>2. CASE i \in drain[c]
      BY <1>1, <1>2, <1>7, <3>1, <3>2 DEF QueueInv, SentIsRun
    <3>3. CASE i \notin drain[c]
      BY <1>2, <1>7, <3>1, <3>3 DEF QueueInv, SentIsRun
    <3> QED BY <3>2, <3>3
  <2> QED BY <2>1 DEF SentIsRun
<1>9. TypeOK'
  <2>1. run' \in [Run -> Active \cup Terminal \cup {"none"}]
    BY DEF DrainCommit, QueueInv, TypeOK, Active
  <2>2. item' \in [Item -> [status : {"none", "queued", "paused", "sent", "removed"},
                            run : Run \cup {0}, session : Session \cup {0}, position : 0..NItem]]
    BY DEF DrainCommit, QueueInv, TypeOK
  <2>3. sent' \in [Item -> 0..2]
    <3>1. sent' = [i \in Item |-> sent'[i]]
      BY DEF DrainCommit
    <3> QED BY <1>8, <3>1 DEF SentIsRun
  <2> QED BY <2>1, <2>2, <2>3 DEF DrainCommit, QueueInv, TypeOK
<1>10. \A d \in Cron : drain'[d] \subseteq drain[d]
  BY DEF DrainCommit, QueueInv, TypeOK
<1>11. SentInOrder'
  <2> SUFFICES ASSUME NEW i \in Item, NEW j \in Item, item'[i].run = item'[j].run,
                      item'[i].position < item'[j].position, item'[i].status = "queued",
                      item'[j].status = "sent"
               PROVE  FALSE
    BY DEF SentInOrder
  <2>1. item[i].run = item[j].run /\ item[i].position < item[j].position /\ item[i].status = "queued"
    BY <1>5 DEF RowsStay
  <2>2. CASE j \in drain[c]
    BY <2>1, <2>2 DEF QueueInv, SelectedIsFirst
  <2>3. CASE j \notin drain[c]
    BY <1>3, <2>1, <2>3 DEF QueueInv, SentInOrder
  <2> QED BY <2>2, <2>3
<1> QED BY <1>5, <1>6, <1>8, <1>9, <1>10, <1>11, RowsStayKeep, SelectionStays DEF QueueInv

-----------------------------------------------------------------------------

LEMMA QueueStarts ==
  ASSUME Init
  PROVE  QueueInv
<1>1. 0 \in 0..NItem
  BY BoundsAssumption
<1>2. \A i \in Item : item[i] = NoItem /\ ~Posted(i) /\ run[i] = "none" /\ sent[i] = 0
  BY DEF Init, Posted, NoItem, Run
<1>3. TypeOK
  BY <1>1 DEF Init, TypeOK, NoItem
<1>4. InTurn /\ OfItsRun /\ SentIsRun /\ SelectedIsFirst
  BY <1>2 DEF Init, InTurn, OfItsRun, SentIsRun, SelectedIsFirst
<1>5. SentInOrder
  BY <1>2 DEF SentInOrder, NoItem
<1> QED BY <1>3, <1>4, <1>5 DEF QueueInv

LEMMA QueueStep ==
  ASSUME QueueInv, [Next]_vars
  PROVE  QueueInv'
<1>1. CASE \E t \in Turn : CreateTurn(t)
  BY <1>1, RunStepKeeps
<1>2. ASSUME NEW r \in Run,
             \/ Stop(r) \/ Retry(r)
             \/ \E s \in {"working", "stopped", "ended"} : SetRunStatus(r, s)
             \/ \E i \in Item : QueueMessage(r, i)
      PROVE  QueueInv'
  BY <1>2, RunStepKeeps, StopKeeps, QueueMessageKeeps
<1>3. ASSUME NEW i \in Item, RemoveQueueItem(i) PROVE QueueInv'
  BY <1>3, RemoveQueueItemKeeps
<1>4. ASSUME NEW s \in Removable, RemoveMember(s) PROVE QueueInv'
  BY <1>4, RemoveMemberKeeps
<1>5. ASSUME NEW c \in Cron, DrainSelect(c) \/ DrainCommit(c) \/ DrainAbort(c) PROVE QueueInv'
  BY <1>5, DrainSelectKeeps, DrainCommitKeeps, DrainAbortKeeps
<1>6. CASE UNCHANGED vars
  BY <1>6, StutterKeeps
<1> QED BY <1>1, <1>2, <1>3, <1>4, <1>5, <1>6 DEF Next

(* The inductive invariant of the queue: the properties below follow from it. *)
THEOREM QueueInvariant == Spec => []QueueInv
<1>1. Init => QueueInv
  BY QueueStarts
<1>2. QueueInv /\ [Next]_vars => QueueInv'
  BY QueueStep
<1> QED BY <1>1, <1>2, PTL DEF Spec

(* The rows, the runs and what each Cron holds have their types, and a position
   never exceeds the number of messages (queueMessage, drainRunQueues). *)
THEOREM QueueTyping == Spec => []TypeOK
<1>1. QueueInv => TypeOK
  BY DEF QueueInv
<1> QED BY <1>1, QueueInvariant, PTL

(* A message becomes at most one run, however many Crons drain at once and however
   their SELECTs and commits overlap (drainRunQueues). *)
THEOREM SentOnceAlways == Spec => []SentOnce
<1>1. QueueInv => SentOnce
  BY DEF QueueInv, SentIsRun, SentOnce
<1> QED BY <1>1, QueueInvariant, PTL

(* No message of a run overtakes one that is still queued, though the SELECT that
   orders them and the commit that sends them are apart (queueMessage, drainRunQueues). *)
THEOREM SentInOrderAlways == Spec => []SentInOrder
<1>1. QueueInv => SentInOrder
  BY DEF QueueInv
<1> QED BY <1>1, QueueInvariant, PTL
=============================================================================
