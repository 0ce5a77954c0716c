------------------------- MODULE PresenceClientProofs -------------------------
(***************************************************************************)
(* Proofs about PresenceClient, for any number of mutations, clients,      *)
(* copies on the wire and crashes.  The writer takes only steps of the     *)
(* sequencer, so what SequencerProofs shows of it is inherited; what the   *)
(* server applies is then a matter of the numbers of the copies, and what  *)
(* a client does one of its send slot.                                     *)
(***************************************************************************)
EXTENDS PresenceClient, SequencerProofs

InSlot == {"queued"} \cup Running
Numbered == {"attempting", "reconciling"}

(* The types, with the client of a mutation that was submitted, and the    *)
(* number of one that was given it.                                        *)
WriterTypeOK ==
  /\ ClientTypeOK
  /\ send_slot \in [Clients -> Seq(Users)]
  /\ \A u \in Users :
       /\ mutation[u].pc \in InSlot => mutation[u].client \in Clients
       /\ mutation[u].pc \in Numbered => mutation[u].seq \in 0..MaxSafe

(* A send slot is a queue of mutations of its client, none twice, and only *)
(* the first of it has gone past the wait.                                 *)
QueuesAreOfClients ==
  \A c \in Clients : \A i \in 1..Len(send_slot[c]) :
    mutation[send_slot[c][i]].client = c /\ mutation[send_slot[c][i]].pc \in InSlot

QueuesAreSets ==
  \A c \in Clients : \A i, j \in 1..Len(send_slot[c]) :
    send_slot[c][i] = send_slot[c][j] => i = j

RunningHolds == \A u \in Users : mutation[u].pc \in Running => Holds(u)

SlotsAreQueues == QueuesAreOfClients /\ QueuesAreSets /\ RunningHolds

-----------------------------------------------------------------------------
(* Every step of the writer is one of its sequencer. *)

LEMMA WriterStep ==
  ASSUME WriterTypeOK, [ClientNext]_writer_vars
  PROVE  [SequencerNext]_store_vars
<1>1. ASSUME NEW u \in Users, Begin(u) PROVE SequencerNext
  BY <1>1, PresenceClientAssumption
     DEF PresenceClientAssumption, Begin, WriterTypeOK, InSlot, SequencerNext
<1>2. ASSUME NEW u \in Users, Answered(u) PROVE SequencerNext
  <2>1. SequencerOf[mutation[u].client] \in Objects /\ reply[u].accepted \in 0..MaxSafe
    BY <1>2, PresenceClientAssumption
       DEF PresenceClientAssumption, Answered, WriterTypeOK, ClientTypeOK, InSlot, Running
  <2> QED BY <1>2, <2>1 DEF Answered, StartReconcile, SequencerNext
<1>3. ASSUME NEW u \in Users,
             \/ ReserveGranted(u) \/ RejectedBeforeSend(u) \/ SequencerErrorEnds(u)
             \/ ReconcileSettles(u) \/ Sequencing(u)
      PROVE  SequencerNext
  BY <1>3
     DEF ReserveGranted, RejectedBeforeSend, SequencerErrorEnds, ReconcileSettles, Sequencing,
         SequencerNext, SequencerStep
<1>4. ASSUME NEW u \in Users, AmbiguousRetry(u) \/ GivesUp(u) \/ \E c \in Clients : Submit(u, c)
      PROVE  UNCHANGED store_vars
  BY <1>4 DEF AmbiguousRetry, GivesUp, Submit
<1>5. ASSUME NEW m \in wire, Arrives(m) PROVE UNCHANGED store_vars
  BY <1>5 DEF Arrives
<1>6. CASE Crash
  BY <1>6 DEF Crash, SequencerNext
<1>7. CASE UNCHANGED writer_vars
  BY <1>7 DEF writer_vars
<1> QED BY <1>1, <1>2, <1>3, <1>4, <1>5, <1>6, <1>7 DEF ClientNext, Progress

-----------------------------------------------------------------------------
(* Types. *)

LEMMA FinishedTyped ==
  ASSUME WriterTypeOK, NEW u \in Users, NEW pc \in Ended
  PROVE  Finished(u, pc) \in Mutation
<1>1. mutation[u] \in Mutation
  BY DEF WriterTypeOK, ClientTypeOK
<1>2. 0 \in 0..2
  OBVIOUS
<1> QED BY <1>1, <1>2 DEF Mutation, Finished

(* The end of a mutation that has the send slot.                           *)
LEMMA EndTyped ==
  ASSUME WriterTypeOK, NEW u \in Users, NEW pc \in Ended, mutation[u].pc \in Running,
         Holds(u), End(u, pc)
  PROVE  /\ mutation' \in [Users -> Mutation]
         /\ send_slot' \in [Clients -> Seq(Users)]
         /\ reply' \in [Users -> [kind : {"none", "ok", "behind", "retryable"},
                                  accepted : 0..MaxSafe]]
         /\ \A v \in Users :
              /\ mutation'[v].pc \in InSlot => mutation'[v].client \in Clients
              /\ mutation'[v].pc \in Numbered => mutation'[v].seq \in 0..MaxSafe
<1>1. mutation' \in [Users -> Mutation]
  BY FinishedTyped DEF End, WriterTypeOK, ClientTypeOK
<1>2. send_slot' \in [Clients -> Seq(Users)]
  <2> DEFINE c == mutation[u].client
  <2>1. c \in Clients /\ send_slot[c] \in Seq(Users) /\ send_slot[c] # <<>>
    BY DEF WriterTypeOK, InSlot, Holds
  <2>2. Tail(send_slot[c]) \in Seq(Users)
    BY <2>1
  <2> QED BY <2>1, <2>2 DEF End, WriterTypeOK
<1>3. NoReply \in [kind : {"none", "ok", "behind", "retryable"}, accepted : 0..MaxSafe]
  BY SequencerAssumption DEF SequencerAssumption, NoReply
<1>4. mutation'[u].pc = pc /\ \A v \in Users \ {u} : mutation'[v] = mutation[v]
  BY DEF End, Finished, WriterTypeOK, ClientTypeOK, Mutation
<1> QED
  BY <1>1, <1>2, <1>3, <1>4
     DEF End, WriterTypeOK, ClientTypeOK, InSlot, Running, Numbered, Ended

(* A mutation that moves within its send slot, with what it may send.      *)
LEMMA MoveTyped ==
  ASSUME WriterTypeOK, NEW u \in Users, NEW r \in Mutation,
         r.pc \in InSlot => r.client \in Clients,
         r.pc \in Numbered => r.seq \in 0..MaxSafe,
         mutation' = [mutation EXCEPT ![u] = r]
  PROVE  /\ mutation' \in [Users -> Mutation]
         /\ \A v \in Users :
              /\ mutation'[v].pc \in InSlot => mutation'[v].client \in Clients
              /\ mutation'[v].pc \in Numbered => mutation'[v].seq \in 0..MaxSafe
BY DEF WriterTypeOK, ClientTypeOK

LEMMA SendTyped ==
  ASSUME WriterTypeOK, NEW u \in Users, NEW seq \in 0..MaxSafe, NEW attempt \in 1..2,
         Send(u, seq, attempt)
  PROVE  /\ wire' \subseteq [user : Users, attempt : 1..2, seq : 0..MaxSafe]
         /\ reply' \in [Users -> [kind : {"none", "ok", "behind", "retryable"},
                                  accepted : 0..MaxSafe]]
BY SequencerAssumption
   DEF SequencerAssumption, Send, NoReply, WriterTypeOK, ClientTypeOK

LEMMA ProgressTyped ==
  ASSUME WriterTypeOK, RunningHolds, SequencerTypeOK', NEW u \in Users, Progress(u)
  PROVE  WriterTypeOK'
<1>0. mutation[u] \in Mutation /\ call[u] \in Call /\ call[u].current \in 0..MaxSafe
  BY DEF WriterTypeOK, ClientTypeOK, SequencerTypeOK, Call
<1>1. CASE Begin(u)
  <2>1. [mutation[u] EXCEPT !.pc = "reserving"] \in Mutation
    BY <1>0 DEF Mutation, Running
  <2>2. mutation' = [mutation EXCEPT ![u] = [mutation[u] EXCEPT !.pc = "reserving"]]
    BY <1>1 DEF Begin
  <2>3. mutation[u].client \in Clients
    BY <1>1 DEF Begin, WriterTypeOK, InSlot
  <2> QED
    BY <1>0, <1>1, <2>1, <2>2, <2>3, MoveTyped
       DEF Begin, WriterTypeOK, ClientTypeOK, Mutation, Numbered
<1>2. CASE ReserveGranted(u)
  <2> DEFINE r == [mutation[u] EXCEPT !.pc = "attempting", !.attempt = 1, !.seq = call[u].current]
  <2>1. r \in Mutation /\ r.client = mutation[u].client /\ r.seq = call[u].current
    <3>1. 1 \in 0..2 /\ call[u].current \in -1..MaxSafe
      BY <1>0, SequencerAssumption DEF SequencerAssumption
    <3> QED BY <1>0, <3>1 DEF Mutation, Running
  <2>2. mutation' = [mutation EXCEPT ![u] = r]
    BY <1>2 DEF ReserveGranted
  <2>3. mutation[u].client \in Clients
    BY <1>2 DEF ReserveGranted, WriterTypeOK, InSlot, Running
  <2>4. Send(u, call[u].current, 1) /\ UNCHANGED <<send_slot, accepted, applied>>
    BY <1>2 DEF ReserveGranted
  <2> HIDE DEF r
  <2> QED
    BY <1>0, <2>1, <2>2, <2>3, <2>4, MoveTyped, SendTyped DEF WriterTypeOK, ClientTypeOK
<1>3. CASE RejectedBeforeSend(u) \/ SequencerErrorEnds(u) \/ GivesUp(u)
  <2>1. mutation[u].pc \in Running /\ End(u, "failed") /\ UNCHANGED <<wire, accepted, applied>>
    BY <1>3 DEF RejectedBeforeSend, SequencerErrorEnds, GivesUp, Running
  <2> QED BY <2>1, EndTyped DEF WriterTypeOK, ClientTypeOK, Ended, RunningHolds
<1>4. CASE Answered(u)
  <2>1. PICK next \in {"done", "behind", "attempting"} : StartReconcile(u, next)
    BY <1>4 DEF Answered
  <2> DEFINE r == [mutation[u] EXCEPT !.pc = "reconciling", !.next = next,
                                      !.answer = reply[u].accepted]
  <2>2. reply[u].accepted \in 0..MaxSafe
    BY DEF WriterTypeOK, ClientTypeOK
  <2>3. r \in Mutation /\ r.client = mutation[u].client /\ r.seq = mutation[u].seq
    BY <1>0, <2>2 DEF Mutation, Running
  <2>4. mutation' = [mutation EXCEPT ![u] = r]
    BY <2>1 DEF StartReconcile
  <2>5. mutation[u].client \in Clients /\ mutation[u].seq \in 0..MaxSafe
    BY <1>4 DEF Answered, WriterTypeOK, InSlot, Running, Numbered
  <2>6. UNCHANGED <<send_slot, wire, reply, accepted, applied>>
    BY <2>1 DEF StartReconcile
  <2> HIDE DEF r
  <2> QED BY <2>3, <2>4, <2>5, <2>6, MoveTyped DEF WriterTypeOK, ClientTypeOK
<1>5. CASE ReconcileSettles(u)
  <2>1. CASE mutation[u].next = "attempting"
    <3> DEFINE r == [mutation[u] EXCEPT !.pc = "attempting", !.attempt = 2]
    <3>1. r \in Mutation /\ r.client = mutation[u].client /\ r.seq = mutation[u].seq
      <4>1. 2 \in 0..2
        OBVIOUS
      <4> QED BY <1>0, <4>1 DEF Mutation, Running
    <3>2. mutation' = [mutation EXCEPT ![u] = r]
      BY <1>5, <2>1 DEF ReconcileSettles
    <3>3. mutation[u].client \in Clients /\ mutation[u].seq \in 0..MaxSafe
      BY <1>5 DEF ReconcileSettles, WriterTypeOK, InSlot, Running, Numbered
    <3>4. Send(u, mutation[u].seq, 2) /\ UNCHANGED <<send_slot, accepted, applied>>
      BY <1>5, <2>1 DEF ReconcileSettles
    <3> HIDE DEF r
    <3> QED BY <3>1, <3>2, <3>3, <3>4, MoveTyped, SendTyped DEF WriterTypeOK, ClientTypeOK
  <2>2. CASE mutation[u].next # "attempting"
    <3>1. mutation[u].next \in Ended /\ mutation[u].pc \in Running
      BY <1>0, <1>5, <2>2 DEF ReconcileSettles, Mutation, Running, Ended
    <3>2. End(u, mutation[u].next) /\ UNCHANGED <<wire, accepted, applied>>
      BY <1>5, <2>2 DEF ReconcileSettles
    <3> QED BY <3>1, <3>2, EndTyped DEF WriterTypeOK, ClientTypeOK, RunningHolds
  <2> QED BY <2>1, <2>2
<1>6. CASE AmbiguousRetry(u)
  <2> DEFINE r == [mutation[u] EXCEPT !.attempt = 2]
  <2>1. r \in Mutation /\ r.client = mutation[u].client /\ r.seq = mutation[u].seq
    <3>1. 2 \in 0..2
      OBVIOUS
    <3> QED BY <1>0, <3>1 DEF Mutation
  <2>2. mutation' = [mutation EXCEPT ![u] = r]
    BY <1>6 DEF AmbiguousRetry
  <2>3. mutation[u].client \in Clients /\ mutation[u].seq \in 0..MaxSafe
    BY <1>6 DEF AmbiguousRetry, WriterTypeOK, InSlot, Running, Numbered
  <2>4. Send(u, mutation[u].seq, 2) /\ UNCHANGED <<send_slot, accepted, applied>>
    BY <1>6 DEF AmbiguousRetry
  <2> HIDE DEF r
  <2> QED BY <2>1, <2>2, <2>3, <2>4, MoveTyped, SendTyped DEF WriterTypeOK, ClientTypeOK
<1>7. CASE Sequencing(u)
  BY <1>7 DEF Sequencing, client_vars, WriterTypeOK, ClientTypeOK
<1> QED BY <1>1, <1>2, <1>3, <1>4, <1>5, <1>6, <1>7 DEF Progress

-----------------------------------------------------------------------------
(* The send slot. *)

(* A step of a mutation keeps it in its send slot, or is its end; only a   *)
(* granted reserve gives it a number.                                      *)
Stays(u) ==
  /\ Holds(u) /\ mutation'[u].pc \in Running /\ UNCHANGED send_slot
Ends(u) ==
  /\ mutation[u].pc \in Running /\ mutation'[u].pc \in Ended
  /\ send_slot' = [send_slot EXCEPT ![mutation[u].client] = Tail(@)]

LEMMA EndIs ==
  ASSUME WriterTypeOK, NEW u \in Users, NEW pc \in Ended, mutation[u].pc \in Running, End(u, pc)
  PROVE  /\ Ends(u)
         /\ mutation'[u].client = mutation[u].client /\ mutation'[u].seq = mutation[u].seq
         /\ mutation'[u].answer = mutation[u].answer
         /\ mutation'[u].pc = pc /\ mutation'[u].pc \notin Numbered
         /\ \A v \in Users \ {u} : mutation'[v] = mutation[v]
<1>1. mutation \in [Users -> Mutation] /\ mutation[u] \in Mutation
  BY DEF WriterTypeOK, ClientTypeOK
<1>2. mutation' = [mutation EXCEPT ![u] = [mutation[u] EXCEPT !.pc = pc, !.attempt = 0, !.next = "done"]]
  BY DEF End, Finished
<1>3. /\ mutation'[u].client = mutation[u].client /\ mutation'[u].seq = mutation[u].seq
      /\ mutation'[u].answer = mutation[u].answer /\ mutation'[u].pc = pc
      /\ \A v \in Users \ {u} : mutation'[v] = mutation[v]
  BY <1>1, <1>2 DEF Mutation
<1> QED BY <1>3 DEF Ends, End, Ended, Numbered

LEMMA ProgressIs ==
  ASSUME WriterTypeOK, RunningHolds, NEW u \in Users, Progress(u)
  PROVE  /\ Stays(u) \/ Ends(u)
         /\ mutation'[u].client = mutation[u].client
         /\ \A v \in Users \ {u} : mutation'[v] = mutation[v]
         /\ mutation[u].pc \in InSlot
         /\ mutation[u].pc \in Numbered => mutation'[u].pc \in Numbered \cup Ended
         /\ \/ ReserveGranted(u)
            \/ /\ mutation'[u].seq = mutation[u].seq
               /\ mutation'[u].pc \in Numbered => mutation[u].pc \in Numbered
<1>0. mutation \in [Users -> Mutation] /\ mutation[u] \in Mutation
  BY DEF WriterTypeOK, ClientTypeOK
<1> USE <1>0 DEF Mutation, Stays, Ends, InSlot, Running, Numbered
<1>1. CASE Begin(u)
  BY <1>1 DEF Begin
<1>2. CASE ReserveGranted(u)
  BY <1>2 DEF ReserveGranted, RunningHolds
<1>3. CASE RejectedBeforeSend(u) \/ SequencerErrorEnds(u) \/ GivesUp(u)
  <2>1. mutation[u].pc \in Running /\ End(u, "failed")
    BY <1>3 DEF RejectedBeforeSend, SequencerErrorEnds, GivesUp
  <2> QED BY <2>1, EndIs DEF Ended
<1>4. CASE Answered(u)
  BY <1>4 DEF Answered, StartReconcile, RunningHolds
<1>5. CASE ReconcileSettles(u)
  <2>1. CASE mutation[u].next = "attempting"
    BY <1>5, <2>1 DEF ReconcileSettles, RunningHolds
  <2>2. CASE mutation[u].next # "attempting"
    <3>1. mutation[u].pc \in Running /\ mutation[u].next \in Ended /\ End(u, mutation[u].next)
      BY <1>5, <2>2 DEF ReconcileSettles, Ended
    <3> QED BY <3>1, EndIs
  <2> QED BY <2>1, <2>2
<1>6. CASE AmbiguousRetry(u)
  BY <1>6 DEF AmbiguousRetry, RunningHolds
<1>7. CASE Sequencing(u)
  BY <1>7 DEF Sequencing, client_vars, RunningHolds
<1> QED BY <1>1, <1>2, <1>3, <1>4, <1>5, <1>6, <1>7 DEF Progress

(* Two mutations of one client are never both past the wait.               *)
LEMMA OneRuns ==
  ASSUME RunningHolds, NEW u \in Users, NEW v \in Users,
         mutation[u].pc \in Running, mutation[v].pc \in Running,
         mutation[u].client = mutation[v].client
  PROVE  u = v
BY DEF RunningHolds, Holds

LEMMA ProgressKeepsSlots ==
  ASSUME WriterTypeOK, SlotsAreQueues, NEW u \in Users, Progress(u)
  PROVE  SlotsAreQueues'
<1>1. /\ Stays(u) \/ Ends(u)
      /\ mutation'[u].client = mutation[u].client
      /\ \A v \in Users \ {u} : mutation'[v] = mutation[v]
  BY ProgressIs DEF SlotsAreQueues
<1>2. CASE Stays(u)
  <2>1. send_slot' = send_slot /\ mutation'[u].pc \in InSlot
    BY <1>2 DEF Stays, InSlot
  <2>2. QueuesAreOfClients'
    <3> SUFFICES ASSUME NEW d \in Clients, NEW i \in 1..Len(send_slot[d])
                 PROVE  /\ mutation'[send_slot[d][i]].client = d
                        /\ mutation'[send_slot[d][i]].pc \in InSlot
      BY <2>1 DEF QueuesAreOfClients
    <3>1. send_slot[d][i] \in Users
      BY DEF WriterTypeOK
    <3>2. mutation[send_slot[d][i]].client = d /\ mutation[send_slot[d][i]].pc \in InSlot
      BY DEF SlotsAreQueues, QueuesAreOfClients
    <3> QED BY <1>1, <2>1, <3>1, <3>2
  <2>3. QueuesAreSets'
    BY <2>1 DEF SlotsAreQueues, QueuesAreSets
  <2>4. RunningHolds'
    BY <1>1, <1>2 DEF Stays, Holds, SlotsAreQueues, RunningHolds
  <2> QED BY <2>2, <2>3, <2>4 DEF SlotsAreQueues
<1>3. CASE Ends(u)
  <2> DEFINE c == mutation[u].client
  <2>1. c \in Clients /\ send_slot[c] \in Seq(Users) /\ send_slot[c] # <<>>
        /\ Head(send_slot[c]) = u /\ u = send_slot[c][1]
    BY <1>3 DEF Ends, WriterTypeOK, InSlot, SlotsAreQueues, RunningHolds, Holds
  <2>2. /\ send_slot'[c] = Tail(send_slot[c])
        /\ \A d \in Clients \ {c} : send_slot'[d] = send_slot[d]
    BY <1>3, <2>1 DEF Ends, WriterTypeOK
  <2>3. /\ Len(send_slot'[c]) = Len(send_slot[c]) - 1 /\ Len(send_slot[c]) \in Nat
        /\ \A i \in 1..Len(send_slot'[c]) : /\ send_slot'[c][i] = send_slot[c][i + 1]
                                           /\ i + 1 \in 1..Len(send_slot[c])
    BY <2>1, <2>2
  <2>4. \A i \in 1..Len(send_slot'[c]) : send_slot'[c][i] # u /\ send_slot'[c][i] \in Users
    BY <2>1, <2>3 DEF SlotsAreQueues, QueuesAreSets
  <2>5. \A d \in Clients \ {c} : \A i \in 1..Len(send_slot[d]) :
          send_slot[d][i] # u /\ send_slot[d][i] \in Users
    BY DEF SlotsAreQueues, QueuesAreOfClients, WriterTypeOK
  <2>6. QueuesAreOfClients'
    <3> SUFFICES ASSUME NEW d \in Clients, NEW i \in 1..Len(send_slot'[d])
                 PROVE  /\ mutation'[send_slot'[d][i]].client = d
                        /\ mutation'[send_slot'[d][i]].pc \in InSlot
      BY DEF QueuesAreOfClients
    <3>1. send_slot'[d][i] \in Users \ {u}
      BY <2>2, <2>4, <2>5
    <3>2. \E j \in 1..Len(send_slot[d]) : send_slot'[d][i] = send_slot[d][j]
      BY <2>2, <2>3
    <3> QED BY <1>1, <3>1, <3>2 DEF SlotsAreQueues, QueuesAreOfClients
  <2>7. QueuesAreSets'
    <3>1. ASSUME NEW i \in 1..Len(send_slot'[c]), NEW j \in 1..Len(send_slot'[c]),
                 send_slot'[c][i] = send_slot'[c][j]
          PROVE  i = j
      BY <2>1, <2>3, <3>1 DEF SlotsAreQueues, QueuesAreSets
    <3> QED BY <2>2, <3>1 DEF SlotsAreQueues, QueuesAreSets
  <2>8. RunningHolds'
    <3> SUFFICES ASSUME NEW v \in Users, mutation'[v].pc \in Running PROVE Holds(v)'
      BY DEF RunningHolds
    <3>1. v # u
      BY <1>3 DEF Ends, Running, Ended
    <3>2. mutation'[v] = mutation[v] /\ Holds(v) /\ mutation[v].client \in Clients
      BY <1>1, <3>1 DEF SlotsAreQueues, RunningHolds, WriterTypeOK, InSlot
    <3>3. mutation[v].client # c
      BY <2>1, <3>1, <3>2 DEF Holds
    <3> QED BY <2>2, <3>2, <3>3 DEF Holds
  <2> QED BY <2>6, <2>7, <2>8 DEF SlotsAreQueues
<1> QED BY <1>1, <1>2, <1>3

LEMMA SubmitKeepsSlots ==
  ASSUME WriterTypeOK, SlotsAreQueues, NEW u \in Users, NEW c \in Clients, Submit(u, c)
  PROVE  SlotsAreQueues'
<1> DEFINE n == Len(send_slot[c]) + 1
<1>1. /\ mutation'[u].pc = "queued" /\ mutation'[u].client = c
      /\ \A v \in Users \ {u} : mutation'[v] = mutation[v]
  BY DEF Submit, WriterTypeOK, ClientTypeOK, Mutation
<1>2. /\ send_slot[c] \in Seq(Users) /\ send_slot'[c] = Append(send_slot[c], u)
      /\ \A d \in Clients \ {c} : send_slot'[d] = send_slot[d]
  BY DEF Submit, WriterTypeOK
<1>3. /\ Len(send_slot'[c]) = n /\ send_slot'[c][n] = u
      /\ Len(send_slot[c]) \in Nat
      /\ \A i \in 1..(n - 1) : send_slot'[c][i] = send_slot[c][i]
  BY <1>2
<1>4. \A d \in Clients : \A i \in 1..Len(send_slot[d]) :
        send_slot[d][i] # u /\ send_slot[d][i] \in Users
  <2>1. mutation[u].pc \notin InSlot
    BY DEF Submit, InSlot, Running
  <2>2. \A d \in Clients : send_slot[d] \in Seq(Users)
    BY DEF WriterTypeOK
  <2> QED BY <2>1, <2>2 DEF SlotsAreQueues, QueuesAreOfClients
<1>5. QueuesAreOfClients'
  <2> SUFFICES ASSUME NEW d \in Clients, NEW i \in 1..Len(send_slot'[d])
               PROVE  /\ mutation'[send_slot'[d][i]].client = d
                      /\ mutation'[send_slot'[d][i]].pc \in InSlot
    BY DEF QueuesAreOfClients
  <2>1. CASE d = c /\ i = n
    BY <1>1, <1>3, <2>1 DEF InSlot
  <2>2. CASE d # c \/ i # n
    <3>1. i \in 1..Len(send_slot[d]) /\ send_slot'[d][i] = send_slot[d][i]
      BY <1>2, <1>3, <2>2
    <3> QED BY <1>1, <1>4, <3>1 DEF SlotsAreQueues, QueuesAreOfClients
  <2> QED BY <2>1, <2>2
<1>6. QueuesAreSets'
  <2>1. ASSUME NEW i \in 1..n, NEW j \in 1..n, send_slot'[c][i] = send_slot'[c][j]
        PROVE  i = j
    <3>1. CASE i = n \/ j = n
      BY <1>3, <1>4, <2>1, <3>1
    <3>2. CASE i # n /\ j # n
      BY <1>3, <2>1, <3>2 DEF SlotsAreQueues, QueuesAreSets
    <3> QED BY <3>1, <3>2
  <2> QED BY <1>2, <1>3, <2>1 DEF SlotsAreQueues, QueuesAreSets
<1>7. RunningHolds'
  <2> SUFFICES ASSUME NEW v \in Users, mutation'[v].pc \in Running PROVE Holds(v)'
    BY DEF RunningHolds
  <2>1. mutation'[v] = mutation[v] /\ Holds(v) /\ mutation[v].client \in Clients
    BY <1>1 DEF Running, SlotsAreQueues, RunningHolds, WriterTypeOK, InSlot
  <2>2. CASE mutation[v].client = c
    <3>1. send_slot[c] # <<>> /\ Head(send_slot[c]) = v
      BY <2>1, <2>2 DEF Holds
    <3>2. send_slot'[c] # <<>> /\ Head(send_slot'[c]) = v
      BY <1>2, <3>1
    <3> QED BY <2>1, <2>2, <3>2 DEF Holds
  <2>3. CASE mutation[v].client # c
    BY <1>2, <2>1, <2>3 DEF Holds
  <2> QED BY <2>2, <2>3
<1> QED BY <1>5, <1>6, <1>7 DEF SlotsAreQueues

-----------------------------------------------------------------------------
(* The writer keeps its types and its send slots. *)

WriterInv == WriterTypeOK /\ SlotsAreQueues

LEMMA WriterInit == ClientInit => WriterInv
<1> SUFFICES ASSUME ClientInit PROVE WriterInv
  OBVIOUS
<1> USE SequencerAssumption DEF SequencerAssumption
<1>1. IdleMutation \in Mutation /\ IdleMutation.pc = "idle"
  <2>1. 0 \in 0..2 /\ -1 \in -1..MaxSafe /\ 0 \in 0..MaxSafe
    OBVIOUS
  <2> QED BY <2>1 DEF IdleMutation, Mutation
<1>2. mutation \in [Users -> Mutation] /\ \A u \in Users : mutation[u].pc = "idle"
  BY <1>1 DEF ClientInit
<1>3. send_slot \in [Clients -> Seq(Users)] /\ \A c \in Clients : Len(send_slot[c]) = 0
  BY DEF ClientInit
<1>4. /\ reply \in [Users -> [kind : {"none", "ok", "behind", "retryable"}, accepted : 0..MaxSafe]]
      /\ accepted \in 0..MaxSafe
  BY DEF ClientInit, NoReply
<1>5. SequencerTypeOK /\ applied \in Seq(Users) /\ wire = {}
  BY TypeInit DEF ClientInit
<1>6. WriterTypeOK
  BY <1>2, <1>3, <1>4, <1>5 DEF WriterTypeOK, ClientTypeOK, InSlot, Running, Numbered
<1>7. SlotsAreQueues
  BY <1>2, <1>3
     DEF SlotsAreQueues, QueuesAreOfClients, QueuesAreSets, RunningHolds, Running
<1> QED BY <1>6, <1>7 DEF WriterInv

LEMMA CrashEnds ==
  ASSUME WriterTypeOK, Crash, NEW u \in Users
  PROVE  /\ mutation'[u].pc = IF mutation[u].pc \in {"idle"} \cup Ended THEN mutation[u].pc
                                ELSE "failed"
         /\ mutation'[u].seq = mutation[u].seq /\ mutation'[u].client = mutation[u].client
         /\ mutation'[u].answer = mutation[u].answer
         /\ mutation'[u] \in Mutation
<1>1. mutation[u] \in Mutation
  BY DEF WriterTypeOK, ClientTypeOK
<1>2. mutation'[u] = IF mutation[u].pc \in {"idle"} \cup Ended THEN mutation[u]
                     ELSE Finished(u, "failed")
  BY DEF Crash
<1>3. Finished(u, "failed") \in Mutation
  BY FinishedTyped DEF Ended
<1>4. /\ Finished(u, "failed").pc = "failed"
      /\ Finished(u, "failed").seq = mutation[u].seq
      /\ Finished(u, "failed").client = mutation[u].client
      /\ Finished(u, "failed").answer = mutation[u].answer
  BY <1>1 DEF Mutation, Finished
<1> QED BY <1>1, <1>2, <1>3, <1>4

(* The reply tells what the server has accepted by then.                   *)
Replies(m, kind) ==
  reply' = IF mutation[m.user].pc = "attempting" /\ mutation[m.user].attempt = m.attempt
           THEN [reply EXCEPT ![m.user] = [kind |-> kind, accepted |-> accepted']]
           ELSE reply

LEMMA ArrivesIs ==
  ASSUME NEW m \in wire, Arrives(m)
  PROVE  /\ wire' \subseteq wire /\ UNCHANGED <<store_vars, mutation, send_slot>>
         /\ \/ m.seq > accepted /\ accepted' = m.seq /\ applied' = Append(applied, m.user)
            \/ UNCHANGED <<accepted, applied>>
         /\ \E kind \in {"ok", "behind", "retryable"} : Replies(m, kind)
<1>1. wire' \subseteq wire /\ UNCHANGED <<store_vars, mutation, send_slot>>
  BY DEF Arrives
<1>2. \/ m.seq > accepted /\ accepted' = m.seq /\ applied' = Append(applied, m.user)
      \/ UNCHANGED <<accepted, applied>>
  BY Zenon DEF Arrives
<1>3. \E kind \in {"ok", "behind", "retryable"} : Replies(m, kind)
  BY Zenon DEF Arrives, Replies
<1> QED BY <1>1, <1>2, <1>3

LEMMA WriterInvStep == WriterInv /\ [ClientNext]_writer_vars => WriterInv'
<1> SUFFICES ASSUME WriterInv, [ClientNext]_writer_vars PROVE WriterInv'
  OBVIOUS
<1>1. SequencerTypeOK'
  BY WriterStep, TypeStep DEF WriterInv, WriterTypeOK, ClientTypeOK
<1>2. ASSUME NEW u \in Users, Progress(u) PROVE WriterInv'
  BY <1>1, <1>2, ProgressTyped, ProgressKeepsSlots DEF WriterInv, SlotsAreQueues
<1>3. ASSUME NEW u \in Users, NEW c \in Clients, Submit(u, c) PROVE WriterInv'
  <2> DEFINE r == [mutation[u] EXCEPT !.pc = "queued", !.client = c]
  <2>1. mutation[u] \in Mutation
    BY DEF WriterInv, WriterTypeOK, ClientTypeOK
  <2>2. r \in Mutation /\ r.client = c /\ r.pc = "queued"
    BY <2>1 DEF Mutation
  <2>3. mutation' = [mutation EXCEPT ![u] = r]
    BY <1>3 DEF Submit
  <2>4. send_slot' \in [Clients -> Seq(Users)]
    BY <1>3 DEF Submit, WriterInv, WriterTypeOK
  <2>5. UNCHANGED <<store_vars, wire, reply, accepted, applied>>
    BY <1>3 DEF Submit
  <2>6. SlotsAreQueues'
    BY <1>3, SubmitKeepsSlots DEF WriterInv
  <2> HIDE DEF r
  <2> QED
    BY <1>1, <2>2, <2>3, <2>4, <2>5, <2>6, MoveTyped
       DEF WriterInv, WriterTypeOK, ClientTypeOK, Numbered
<1>4. ASSUME NEW m \in wire, Arrives(m) PROVE WriterInv'
  <2>1. /\ m.user \in Users /\ m.seq \in 0..MaxSafe
        /\ accepted \in 0..MaxSafe /\ applied \in Seq(Users)
    BY DEF WriterInv, WriterTypeOK, ClientTypeOK
  <2>2. /\ wire' \subseteq wire /\ accepted' \in 0..MaxSafe /\ applied' \in Seq(Users)
        /\ UNCHANGED <<store_vars, mutation, send_slot>>
    BY <1>4, <2>1, ArrivesIs
  <2>3. reply' \in [Users -> [kind : {"none", "ok", "behind", "retryable"}, accepted : 0..MaxSafe]]
    <3>1. PICK kind \in {"ok", "behind", "retryable"} : Replies(m, kind)
      BY <1>4, ArrivesIs
    <3> QED BY <2>1, <2>2, <3>1 DEF Replies, WriterInv, WriterTypeOK, ClientTypeOK
  <2> QED
    BY <1>1, <2>2, <2>3
       DEF WriterInv, WriterTypeOK, ClientTypeOK, SlotsAreQueues, QueuesAreOfClients, QueuesAreSets,
           RunningHolds, Holds
<1>5. CASE Crash
  <2>1. mutation' \in [Users -> Mutation]
    BY <1>5, CrashEnds DEF WriterInv, Crash
  <2>2. \A u \in Users : mutation'[u].pc \notin InSlot /\ mutation'[u].pc \notin Numbered
    BY <1>5, CrashEnds
       DEF WriterInv, WriterTypeOK, ClientTypeOK, InSlot, Running, Numbered, Ended
  <2>3. /\ send_slot' \in [Clients -> Seq(Users)] /\ \A c \in Clients : Len(send_slot'[c]) = 0
        /\ UNCHANGED <<wire, accepted, applied>>
    BY <1>5 DEF Crash
  <2>4. reply' \in [Users -> [kind : {"none", "ok", "behind", "retryable"}, accepted : 0..MaxSafe]]
    BY <1>5, SequencerAssumption DEF SequencerAssumption, Crash, NoReply
  <2> QED
    BY <1>1, <2>1, <2>2, <2>3, <2>4
       DEF WriterInv, WriterTypeOK, ClientTypeOK, SlotsAreQueues, QueuesAreOfClients, QueuesAreSets,
           RunningHolds, InSlot
<1>6. CASE UNCHANGED writer_vars
  BY <1>1, <1>6
     DEF writer_vars, client_vars, WriterInv, WriterTypeOK, ClientTypeOK, SlotsAreQueues,
         QueuesAreOfClients, QueuesAreSets, RunningHolds, Holds
<1> QED BY <1>2, <1>3, <1>4, <1>5, <1>6 DEF ClientNext

LEMMA WriterInvHolds == ClientSpec => []WriterInv
BY WriterInit, WriterInvStep, PTL DEF ClientSpec

(* Mutations, send slots, the wire and the server keep their types.        *)
THEOREM ClientTypeCorrect == ClientSpec => []ClientTypeOK
<1>1. WriterInv => ClientTypeOK
  BY DEF WriterInv, WriterTypeOK
<1> QED BY <1>1, WriterInvHolds, PTL

(* The writer uses its sequencers as any caller may: what holds of them    *)
(* under any calls holds here.                                             *)
THEOREM WriterIsSequencer == ClientSpec => SequencerSpec
<1>1. ClientInit => SequencerInit
  BY DEF ClientInit
<1>2. WriterInv /\ [ClientNext]_writer_vars => [SequencerNext]_store_vars
  BY WriterStep DEF WriterInv
<1> QED BY <1>1, <1>2, WriterInvHolds, PTL DEF ClientSpec, SequencerSpec

-----------------------------------------------------------------------------
(* What the server applies, for any number of sequencer objects. *)

(* A copy carries the number of its mutation, which is past its reserve.   *)
CopiesCarryNumbers ==
  \A m \in wire : /\ mutation[m.user].pc \in Numbered \cup Ended
                  /\ mutation[m.user].seq = m.seq

AppliedAreAccepted ==
  \A i \in 1..Len(applied) : /\ mutation[applied[i]].pc \in Numbered \cup Ended
                             /\ mutation[applied[i]].seq <= accepted

AppliedGrow ==
  \A i, j \in 1..Len(applied) : i < j => mutation[applied[i]].seq < mutation[applied[j]].seq

AppliedInv == CopiesCarryNumbers /\ AppliedAreAccepted /\ AppliedGrow

(* A mutation that has sent something keeps its number.                    *)
LEMMA SentStays ==
  ASSUME WriterInv, [ClientNext]_writer_vars,
         NEW u \in Users, mutation[u].pc \in Numbered \cup Ended
  PROVE  mutation'[u].pc \in Numbered \cup Ended /\ mutation'[u].seq = mutation[u].seq
<1>0. mutation \in [Users -> Mutation]
  BY DEF WriterInv, WriterTypeOK, ClientTypeOK
<1>1. ASSUME NEW v \in Users, Progress(v)
      PROVE  mutation'[u].pc \in Numbered \cup Ended /\ mutation'[u].seq = mutation[u].seq
  BY <1>1, ProgressIs
     DEF WriterInv, SlotsAreQueues, ReserveGranted, Numbered, InSlot, Running, Ended
<1>2. ASSUME NEW v \in Users, NEW c \in Clients, Submit(v, c)
      PROVE  mutation'[u] = mutation[u]
  BY <1>0, <1>2 DEF Submit, Numbered, Ended
<1>3. ASSUME NEW m \in wire, Arrives(m) PROVE mutation'[u] = mutation[u]
  BY <1>3, ArrivesIs
<1>4. CASE Crash
  BY <1>4, CrashEnds DEF WriterInv, Numbered, Ended
<1>5. CASE UNCHANGED writer_vars
  BY <1>5 DEF writer_vars, client_vars
<1> QED BY <1>1, <1>2, <1>3, <1>4, <1>5 DEF ClientNext

(* What is added to the wire carries the number of its sender.             *)
LEMMA WireGrows ==
  ASSUME WriterInv, [ClientNext]_writer_vars, NEW m \in wire', m \notin wire
  PROVE  /\ m.user \in Users
         /\ mutation'[m.user].pc \in Numbered /\ mutation'[m.user].seq = m.seq
<1>0. mutation \in [Users -> Mutation]
  BY DEF WriterInv, WriterTypeOK, ClientTypeOK
<1>1. ASSUME NEW u \in Users, Progress(u)
      PROVE  m.user = u /\ mutation'[u].pc \in Numbered /\ mutation'[u].seq = m.seq
  <2>0. mutation[u] \in Mutation
    BY <1>0
  <2>1. CASE ReserveGranted(u)
    BY <1>0, <2>0, <2>1 DEF ReserveGranted, Send, Numbered, Mutation
  <2>2. CASE ReconcileSettles(u)
    BY <1>0, <2>0, <2>2 DEF ReconcileSettles, Send, Numbered, Mutation
  <2>3. CASE AmbiguousRetry(u)
    BY <1>0, <2>0, <2>3 DEF AmbiguousRetry, Send, Numbered, Mutation
  <2>4. CASE \/ Begin(u) \/ RejectedBeforeSend(u) \/ SequencerErrorEnds(u) \/ Answered(u)
             \/ GivesUp(u) \/ Sequencing(u)
    BY <2>4
       DEF Begin, RejectedBeforeSend, SequencerErrorEnds, Answered, StartReconcile, GivesUp,
           Sequencing, client_vars
  <2> QED BY <1>1, <2>1, <2>2, <2>3, <2>4 DEF Progress
<1>2. ASSUME NEW u \in Users, NEW c \in Clients, Submit(u, c) PROVE FALSE
  BY <1>2 DEF Submit
<1>3. ASSUME NEW n \in wire, Arrives(n) PROVE FALSE
  BY <1>3, ArrivesIs
<1>4. CASE Crash
  BY <1>4 DEF Crash
<1>5. CASE UNCHANGED writer_vars
  BY <1>5 DEF writer_vars, client_vars
<1> QED BY <1>1, <1>2, <1>3, <1>4, <1>5 DEF ClientNext

(* The server moves only when a copy arrives that is above what it has     *)
(* accepted.                                                               *)
LEMMA ServerMoves ==
  ASSUME [ClientNext]_writer_vars
  PROVE  \/ UNCHANGED <<accepted, applied>>
         \/ \E m \in wire : /\ m.seq > accepted /\ accepted' = m.seq
                            /\ applied' = Append(applied, m.user)
<1>1. ASSUME NEW u \in Users, Progress(u) PROVE UNCHANGED <<accepted, applied>>
  BY <1>1
     DEF Progress, Begin, ReserveGranted, RejectedBeforeSend, SequencerErrorEnds, Answered,
         StartReconcile, ReconcileSettles, AmbiguousRetry, GivesUp, Sequencing, client_vars
<1>2. ASSUME NEW u \in Users, NEW c \in Clients, Submit(u, c)
      PROVE  UNCHANGED <<accepted, applied>>
  BY <1>2 DEF Submit
<1>3. CASE Crash \/ UNCHANGED writer_vars
  BY <1>3 DEF Crash, writer_vars, client_vars
<1> QED BY <1>1, <1>2, <1>3, ArrivesIs DEF ClientNext

LEMMA AppliedInvStep ==
  ASSUME WriterInv, WriterInv', AppliedInv, [ClientNext]_writer_vars PROVE AppliedInv'
<1>0. /\ mutation \in [Users -> Mutation] /\ mutation' \in [Users -> Mutation]
      /\ wire \subseteq [user : Users, attempt : 1..2, seq : 0..MaxSafe]
      /\ accepted \in Int /\ accepted' \in Int
      /\ applied \in Seq(Users) /\ applied' \in Seq(Users)
  BY DEF WriterInv, WriterTypeOK, ClientTypeOK
<1>1. \A u \in Users : mutation[u].seq \in Int /\ mutation'[u].seq \in Int
  BY <1>0, SequencerAssumption DEF SequencerAssumption, Mutation
<1>2. CopiesCarryNumbers'
  BY <1>0, SentStays, WireGrows DEF AppliedInv, CopiesCarryNumbers
<1>3. \A i \in 1..Len(applied) :
        /\ applied[i] \in Users
        /\ mutation'[applied[i]].pc \in Numbered \cup Ended
        /\ mutation'[applied[i]].seq = mutation[applied[i]].seq
  BY <1>0, SentStays DEF AppliedInv, AppliedAreAccepted
<1>4. CASE UNCHANGED <<accepted, applied>>
  BY <1>2, <1>3, <1>4 DEF AppliedInv, AppliedAreAccepted, AppliedGrow
<1>5. ASSUME NEW m \in wire, m.seq > accepted, accepted' = m.seq,
             applied' = Append(applied, m.user)
      PROVE  AppliedInv'
  <2> DEFINE n == Len(applied) + 1
  <2>1. /\ m.user \in Users /\ m.seq \in Int
        /\ mutation'[m.user].pc \in Numbered \cup Ended /\ mutation'[m.user].seq = m.seq
    BY <1>0, SentStays DEF AppliedInv, CopiesCarryNumbers
  <2>2. /\ Len(applied) \in Nat /\ Len(applied') = n /\ applied'[n] = m.user
        /\ \A i \in 1..n : i # n => i \in 1..Len(applied) /\ applied'[i] = applied[i]
    BY <1>0, <1>5, <2>1
  <2>3. \A i \in 1..Len(applied) : /\ mutation'[applied[i]].seq <= accepted
                                  /\ mutation'[applied[i]].seq \in Int
    BY <1>1, <1>3 DEF AppliedInv, AppliedAreAccepted
  <2>4. \A i \in 1..n : /\ mutation'[applied'[i]].pc \in Numbered \cup Ended
                        /\ mutation'[applied'[i]].seq <= accepted'
    <3> TAKE i \in 1..n
    <3>1. CASE i = n
      BY <1>5, <2>1, <2>2, <3>1
    <3>2. CASE i # n
      BY <1>0, <1>3, <1>5, <2>1, <2>2, <2>3, <3>2
    <3> QED BY <3>1, <3>2
  <2>5. \A i, j \in 1..n : i < j => mutation'[applied'[i]].seq < mutation'[applied'[j]].seq
    <3> SUFFICES ASSUME NEW i \in 1..n, NEW j \in 1..n, i < j
                 PROVE  mutation'[applied'[i]].seq < mutation'[applied'[j]].seq
      OBVIOUS
    <3>1. i # n /\ i \in 1..Len(applied) /\ applied'[i] = applied[i]
      BY <2>2
    <3>2. CASE j = n
      BY <1>0, <1>5, <2>1, <2>2, <2>3, <3>1, <3>2
    <3>3. CASE j # n
      <4>1. j \in 1..Len(applied) /\ applied'[j] = applied[j]
        BY <2>2, <3>3
      <4> QED BY <1>3, <3>1, <4>1 DEF AppliedInv, AppliedGrow
    <3> QED BY <3>2, <3>3
  <2> QED BY <1>2, <2>2, <2>4, <2>5 DEF AppliedInv, AppliedAreAccepted, AppliedGrow
<1> QED BY <1>4, <1>5, ServerMoves

LEMMA AppliedInvHolds == ClientSpec => [](WriterInv /\ AppliedInv)
<1>1. ClientInit => AppliedInv
  BY DEF ClientInit, AppliedInv, CopiesCarryNumbers, AppliedAreAccepted, AppliedGrow
<1>2. WriterInv /\ WriterInv' /\ AppliedInv /\ [ClientNext]_writer_vars => AppliedInv'
  BY AppliedInvStep
<1> QED BY <1>1, <1>2, WriterInvHolds, PTL DEF ClientSpec

(* A retry, a late copy or a crash never makes the server apply a mutation *)
(* twice, nor out of order, even when two sequencer objects give the same  *)
(* number to two mutations.                                                *)
THEOREM AppliedOnceInOrderHolds == ClientSpec => []AppliedOnceInOrder
<1>1. WriterInv /\ AppliedInv => AppliedOnceInOrder
  <2> SUFFICES ASSUME WriterInv, AppliedInv,
                      NEW i \in DOMAIN applied, NEW j \in DOMAIN applied, i < j
               PROVE  /\ applied[i] # applied[j]
                      /\ mutation[applied[i]].seq < mutation[applied[j]].seq
    BY DEF AppliedOnceInOrder
  <2>1. /\ i \in 1..Len(applied) /\ j \in 1..Len(applied) /\ applied[i] \in Users
        /\ mutation \in [Users -> Mutation]
    BY DEF WriterInv, WriterTypeOK, ClientTypeOK
  <2>2. mutation[applied[i]].seq < mutation[applied[j]].seq
    BY <2>1 DEF AppliedInv, AppliedGrow
  <2>3. mutation[applied[i]].seq \in Int
    BY <2>1, SequencerAssumption DEF SequencerAssumption, Mutation
  <2> QED BY <2>2, <2>3
<1> QED BY <1>1, AppliedInvHolds, PTL

-----------------------------------------------------------------------------
(* Numbers, with one sequencer object per device. *)

(* Every number given is at most the last one returned, and a mutation     *)
(* that has one in flight has a greater one than those of its client that  *)
(* have ended.                                                             *)
NumbersReturned == \A u \in Users : mutation[u].seq <= last

NumbersFollowEnds ==
  \A u, v \in Users :
    /\ u # v /\ mutation[u].client = mutation[v].client
    /\ mutation[u].pc \in Numbered /\ mutation[v].pc \in Ended
    => mutation[v].seq < mutation[u].seq

NumberInv == SequencerInv /\ NumbersReturned /\ NumbersFollowEnds

LEMMA NumbersTyped ==
  ASSUME WriterInv, SequencerInv
  PROVE  /\ last \in Int /\ CurrentNext \in 0..MaxSafe /\ last < CurrentNext
         /\ \A u \in Users : mutation[u].seq \in Int
<1>1. \A u \in Users : mutation[u].seq \in Int
  <2> TAKE u \in Users
  <2>1. mutation[u] \in Mutation
    BY DEF WriterInv, WriterTypeOK, ClientTypeOK
  <2> QED BY <2>1, SequencerAssumption DEF SequencerAssumption, Mutation
<1>2. last \in Int /\ CurrentNext \in 0..MaxSafe /\ last < CurrentNext
  BY NextInRange, SequencerAssumption
     DEF SequencerAssumption, SequencerInv, SequencerTypeOK, Monotone
<1> QED BY <1>1, <1>2

(* A number is new when the reserve returns it.                            *)
LEMMA GrantIsNew ==
  ASSUME WriterInv, SequencerInv, NEW u \in Users, ReserveGranted(u)
  PROVE  mutation'[u].seq = last' /\ last < last' /\ mutation'[u].pc = "attempting"
BY DEF ReserveGranted, ReserveReturns, WriterInv, WriterTypeOK, ClientTypeOK, Mutation,
       SequencerInv, Monotone

LEMMA SubmitQueues ==
  ASSUME WriterInv, NEW u \in Users, NEW c \in Clients, Submit(u, c)
  PROVE  /\ mutation[u].pc = "idle" /\ mutation'[u].pc = "queued"
         /\ mutation'[u].seq = mutation[u].seq /\ mutation'[u].answer = mutation[u].answer
         /\ \A v \in Users \ {u} : mutation'[v] = mutation[v]
         /\ UNCHANGED <<store_vars, wire, reply, accepted, applied>>
BY DEF Submit, WriterInv, WriterTypeOK, ClientTypeOK, Mutation

LEMMA NumbersReturnedStep ==
  ASSUME SingleObject, WriterInv, WriterInv', NumberInv, SequencerInv', [ClientNext]_writer_vars
  PROVE  NumbersReturned'
<1>1. last <= last' /\ last \in Int /\ last' \in Int
  BY NumbersGrow, WriterStep, NumbersTyped, SequencerAssumption
     DEF NumberInv, WriterInv, SequencerAssumption, SequencerInv, SequencerTypeOK
<1>2. \A u \in Users : mutation[u].seq \in Int /\ mutation[u].seq <= last
  BY NumbersTyped DEF NumberInv, NumbersReturned
<1>3. SUFFICES ASSUME NEW u \in Users
               PROVE  mutation'[u].seq = mutation[u].seq \/ mutation'[u].seq = last'
  BY <1>1, <1>2 DEF NumbersReturned
<1>4. ASSUME NEW v \in Users, Progress(v)
      PROVE  mutation'[u].seq = mutation[u].seq \/ mutation'[u].seq = last'
  BY <1>4, ProgressIs, GrantIsNew DEF WriterInv, SlotsAreQueues, NumberInv
<1>5. ASSUME NEW v \in Users, NEW c \in Clients, Submit(v, c)
      PROVE  mutation'[u].seq = mutation[u].seq
  BY <1>5, SubmitQueues
<1>6. ASSUME NEW m \in wire, Arrives(m) PROVE mutation'[u].seq = mutation[u].seq
  BY <1>6, ArrivesIs
<1>7. CASE Crash
  BY <1>7, CrashEnds DEF WriterInv
<1>8. CASE UNCHANGED writer_vars
  BY <1>8 DEF writer_vars, client_vars
<1> QED BY <1>4, <1>5, <1>6, <1>7, <1>8 DEF ClientNext

LEMMA NumbersFollowEndsStep ==
  ASSUME SingleObject, WriterInv, WriterInv', NumberInv, SequencerInv', [ClientNext]_writer_vars
  PROVE  NumbersFollowEnds'
<1> SUFFICES ASSUME NEW u \in Users, NEW v \in Users, u # v,
                    mutation'[u].client = mutation'[v].client,
                    mutation'[u].pc \in Numbered, mutation'[v].pc \in Ended
             PROVE  mutation'[v].seq < mutation'[u].seq
  BY DEF NumbersFollowEnds
<1>0. mutation[v].seq \in Int /\ mutation[v].seq <= last /\ last \in Int /\ last' \in Int
  BY NumbersTyped, SequencerAssumption
     DEF NumberInv, NumbersReturned, SequencerAssumption, SequencerInv, SequencerTypeOK
<1>1. ASSUME NEW w \in Users, Progress(w) PROVE mutation'[v].seq < mutation'[u].seq
  <2>1. CASE w = u
    <3>1. CASE ReserveGranted(u)
      BY <1>0, <1>1, <2>1, <3>1, ProgressIs, GrantIsNew DEF WriterInv, SlotsAreQueues, NumberInv
    <3>2. CASE ~ReserveGranted(u)
      BY <1>1, <2>1, <3>2, ProgressIs DEF WriterInv, SlotsAreQueues, NumberInv, NumbersFollowEnds
    <3> QED BY <3>1, <3>2
  <2>2. CASE w = v
    <3>1. /\ mutation'[u] = mutation[u] /\ mutation'[v].client = mutation[v].client
          /\ mutation[v].pc \in Running
      BY <1>1, <2>2, ProgressIs DEF WriterInv, SlotsAreQueues, Stays, Ends, Running, Ended
    <3> QED BY <3>1, OneRuns DEF WriterInv, SlotsAreQueues, Numbered, Running
  <2>3. CASE w # u /\ w # v
    BY <1>1, <2>3, ProgressIs DEF WriterInv, SlotsAreQueues, NumberInv, NumbersFollowEnds
  <2> QED BY <2>1, <2>2, <2>3
<1>2. ASSUME NEW w \in Users, NEW c \in Clients, Submit(w, c)
      PROVE  mutation'[v].seq < mutation'[u].seq
  <2>1. w # u /\ w # v
    BY <1>2, SubmitQueues DEF Numbered, Ended
  <2> QED BY <1>2, <2>1, SubmitQueues DEF NumberInv, NumbersFollowEnds
<1>3. ASSUME NEW m \in wire, Arrives(m) PROVE mutation'[v].seq < mutation'[u].seq
  BY <1>3, ArrivesIs DEF NumberInv, NumbersFollowEnds
<1>4. CASE Crash
  BY <1>4, CrashEnds DEF WriterInv, Numbered, Ended
<1>5. CASE UNCHANGED writer_vars
  BY <1>5 DEF writer_vars, client_vars, NumberInv, NumbersFollowEnds
<1> QED BY <1>1, <1>2, <1>3, <1>4, <1>5 DEF ClientNext

LEMMA NumberInvHolds ==
  ASSUME SingleObject PROVE ClientSpec => [](WriterInv /\ AppliedInv /\ NumberInv)
<1>1. ClientInit => NumberInv
  <2> SUFFICES ASSUME ClientInit PROVE NumberInv
    OBVIOUS
  <2>1. \A u \in Users : mutation[u].pc = "idle" /\ mutation[u].seq = -1
    BY DEF ClientInit, IdleMutation
  <2>2. last = -1 /\ SequencerInv
    BY InvInit DEF ClientInit, SequencerInit
  <2> QED BY <2>1, <2>2 DEF NumberInv, NumbersReturned, NumbersFollowEnds, Numbered
<1>2. WriterInv /\ WriterInv' /\ NumberInv /\ [ClientNext]_writer_vars => NumberInv'
  <2> SUFFICES ASSUME WriterInv, WriterInv', NumberInv, [ClientNext]_writer_vars PROVE NumberInv'
    OBVIOUS
  <2>1. SequencerInv'
    BY WriterStep, InvStep DEF WriterInv, NumberInv
  <2> QED BY <2>1, NumbersReturnedStep, NumbersFollowEndsStep DEF NumberInv
<1> QED BY <1>1, <1>2, AppliedInvHolds, PTL DEF ClientSpec

(* What is on the wire is behind the durable next sequence.                *)
THEOREM DurableBeforeSendHolds == ASSUME SingleObject PROVE ClientSpec => []DurableBeforeSend
<1>1. WriterInv /\ AppliedInv /\ NumberInv => DurableBeforeSend
  <2> SUFFICES ASSUME WriterInv, AppliedInv, NumberInv, NEW m \in wire
               PROVE  m.seq < CurrentNext
    BY DEF DurableBeforeSend
  <2>1. m.user \in Users /\ mutation[m.user].seq = m.seq
    BY DEF WriterInv, WriterTypeOK, ClientTypeOK, AppliedInv, CopiesCarryNumbers
  <2> QED BY <2>1, NumbersTyped DEF NumberInv, NumbersReturned
<1> QED BY <1>1, NumberInvHolds, PTL

(* The numbers of a client grow in the order its send slot is granted, for *)
(* any number of clients over the one sequencer.                           *)
THEOREM SequencesFollowQueueHolds ==
  ASSUME SingleObject PROVE ClientSpec => []SequencesFollowQueue
<1>1. WriterInv /\ NumberInv => SequencesFollowQueue
  <2> SUFFICES ASSUME WriterInv, NumberInv, NEW u \in Users, NEW v \in Users,
                      u # v, mutation[u].client = mutation[v].client,
                      mutation[u].pc = "attempting", mutation[v].pc # "idle"
               PROVE  \/ mutation[v].pc = "queued"
                      \/ mutation[v].pc \in Ended /\ mutation[v].seq < mutation[u].seq
    BY DEF SequencesFollowQueue
  <2>1. mutation[v].pc \notin Running
    BY OneRuns DEF WriterInv, SlotsAreQueues, Running
  <2>2. mutation[v].pc \in {"queued"} \cup Ended
    BY <2>1 DEF WriterInv, WriterTypeOK, ClientTypeOK, Mutation
  <2> QED BY <2>2 DEF NumberInv, NumbersFollowEnds, Numbered
<1> QED BY <1>1, NumberInvHolds, PTL

(* The numbers the writer's reserves return grow strictly, whatever the     *)
(* retries, rejections and crashes: it implements the ticket issuer.       *)
THEOREM WriterNeverReuses == ASSUME SingleObject PROVE ClientSpec => NeverReused
BY WriterIsSequencer, NeverReusedHolds, PTL

(* No two mutations of the device ever have the same number, so the server *)
(* never takes one for a repetition of another.                            *)
NumbersAreDistinct ==
  \A u, v \in Users : mutation[u].seq = mutation[v].seq /\ mutation[u].seq # -1 => u = v

LEMMA NumbersAreDistinctStep ==
  ASSUME SingleObject, WriterInv, NumberInv, NumbersAreDistinct, [ClientNext]_writer_vars
  PROVE  NumbersAreDistinct'
<1>0. \A u \in Users : mutation[u].seq \in Int /\ mutation[u].seq <= last /\ last \in Int
  BY NumbersTyped DEF NumberInv, NumbersReturned
<1>1. ASSUME NEW w \in Users, ReserveGranted(w) PROVE NumbersAreDistinct'
  <2>1. \A v \in Users \ {w} : mutation'[v] = mutation[v]
    BY <1>1 DEF ReserveGranted, WriterInv, WriterTypeOK, ClientTypeOK
  <2>2. mutation'[w].seq = last' /\ last < last' /\ last' \in Int
    <3>1. last' = call[w].current /\ call[w].current \in Int
      BY <1>1, SequencerAssumption
         DEF ReserveGranted, ReserveReturns, SequencerAssumption, NumberInv, SequencerInv,
             SequencerTypeOK, Call
    <3> QED BY <1>1, <3>1, GrantIsNew DEF NumberInv
  <2> QED BY <1>0, <2>1, <2>2 DEF NumbersAreDistinct
<1>2. ASSUME \A u \in Users : mutation'[u].seq = mutation[u].seq PROVE NumbersAreDistinct'
  BY <1>2 DEF NumbersAreDistinct
<1>3. ASSUME NEW w \in Users, Progress(w) PROVE NumbersAreDistinct'
  BY <1>1, <1>2, <1>3, ProgressIs DEF WriterInv, SlotsAreQueues
<1>4. ASSUME NEW w \in Users, NEW c \in Clients, Submit(w, c) PROVE NumbersAreDistinct'
  BY <1>2, <1>4, SubmitQueues
<1>5. ASSUME NEW m \in wire, Arrives(m) PROVE NumbersAreDistinct'
  BY <1>2, <1>5, ArrivesIs
<1>6. CASE Crash
  BY <1>2, <1>6, CrashEnds DEF WriterInv
<1>7. CASE UNCHANGED writer_vars
  BY <1>2, <1>7 DEF writer_vars, client_vars
<1> QED BY <1>3, <1>4, <1>5, <1>6, <1>7 DEF ClientNext

THEOREM NumbersAreDistinctHolds == ASSUME SingleObject PROVE ClientSpec => []NumbersAreDistinct
<1>1. ClientInit => NumbersAreDistinct
  BY DEF ClientInit, IdleMutation, NumbersAreDistinct
<1> QED BY <1>1, NumbersAreDistinctStep, NumberInvHolds, PTL DEF ClientSpec

-----------------------------------------------------------------------------
(* Answers. *)

(* The call a mutation has is the one it makes.                            *)
OwnCall(u) ==
  /\ mutation[u].pc = "reserving" => call[u].pc # "idle" /\ call[u].op = "reserve"
  /\ mutation[u].pc = "reconciling" =>
       /\ call[u].pc # "idle" /\ call[u].op = "reconcile"
       /\ call[u].accepted = mutation[u].answer
  /\ mutation[u].pc \notin {"reserving", "reconciling"} => call[u].pc = "idle"

CallIsOwn == \A u \in Users : OwnCall(u)

(* The server never accepts the end of the wire range, which no mutation   *)
(* can have.                                                               *)
AnswersInRange ==
  /\ accepted < MaxSafe
  /\ \A u \in Users : reply[u].accepted < MaxSafe /\ mutation[u].answer < MaxSafe

LearntInv == CallIsOwn /\ AnswersInRange /\ AnswerIsLearnt

(* What a call of the sequencer is when its user makes it.                 *)
LEMMA ReserveCalled ==
  ASSUME SequencerTypeOK, NEW u \in Users, NEW o, CallReserve(u, o)
  PROVE  call'[u].pc = "waiting" /\ call'[u].op = "reserve"
BY DEF SequencerTypeOK, CallReserve, IdleCall

LEMMA ReconcileCalled ==
  ASSUME SequencerTypeOK, NEW u \in Users, NEW o, NEW a, CallReconcile(u, o, a)
  PROVE  call'[u].pc = "waiting" /\ call'[u].op = "reconcile" /\ call'[u].accepted = a
BY DEF SequencerTypeOK, CallReconcile, IdleCall

LEMMA OthersCallsKept ==
  ASSUME WriterTypeOK, NEW u \in Users, Progress(u), NEW v \in Users \ {u}
  PROVE  call'[v] = call[v]
<1>1. call \in [Users -> Call]
  BY DEF WriterTypeOK, ClientTypeOK, SequencerTypeOK
<1> QED
  BY <1>1
     DEF Progress, Begin, ReserveGranted, RejectedBeforeSend, SequencerErrorEnds, Answered,
         StartReconcile, ReconcileSettles, AmbiguousRetry, GivesUp, Sequencing, CallReserve,
         CallReconcile, Load, PersistReserve, ReserveExhausted, StoreFails, ReserveReturns,
         Reconcile, FailureSeen, store_vars

(* Either the answer stays or it is what the reply told.                   *)
LEMMA AnswerIs ==
  ASSUME WriterTypeOK, RunningHolds, NEW u \in Users, Progress(u)
  PROVE  /\ \/ mutation'[u].answer = mutation[u].answer
            \/ Answered(u) /\ mutation'[u].answer = reply[u].accepted
         /\ mutation'[u].pc \in {"done", "behind"} =>
              /\ mutation[u].pc = "reconciling" /\ Reconcile(u)
              /\ mutation'[u].answer = mutation[u].answer
         /\ \A v \in Users : \/ reply'[v].accepted = reply[v].accepted
                            \/ reply'[v].accepted = 0
<1>0. /\ mutation \in [Users -> Mutation] /\ mutation[u] \in Mutation
      /\ reply \in [Users -> [kind : {"none", "ok", "behind", "retryable"},
                              accepted : 0..MaxSafe]]
  BY DEF WriterTypeOK, ClientTypeOK
<1> USE <1>0 DEF Mutation, NoReply
<1>1. CASE Begin(u)
  BY <1>1 DEF Begin
<1>2. CASE ReserveGranted(u)
  BY <1>2 DEF ReserveGranted, Send
<1>3. CASE RejectedBeforeSend(u) \/ SequencerErrorEnds(u) \/ GivesUp(u)
  <2>1. mutation[u].pc \in Running /\ End(u, "failed")
    BY <1>3 DEF RejectedBeforeSend, SequencerErrorEnds, GivesUp, Running
  <2>2. mutation'[u].pc = "failed" /\ mutation'[u].answer = mutation[u].answer
    BY <2>1, EndIs DEF Ended
  <2> QED BY <2>1, <2>2 DEF End
<1>4. CASE Answered(u)
  BY <1>4 DEF Answered, StartReconcile
<1>5. CASE ReconcileSettles(u)
  <2>1. CASE mutation[u].next = "attempting"
    BY <1>5, <2>1 DEF ReconcileSettles, Send
  <2>2. CASE mutation[u].next # "attempting"
    <3>1. mutation[u].pc \in Running /\ mutation[u].next \in Ended /\ End(u, mutation[u].next)
      BY <1>5, <2>2 DEF ReconcileSettles, Ended, Running
    <3>2. mutation'[u].answer = mutation[u].answer
      BY <3>1, EndIs
    <3> QED BY <1>5, <3>1, <3>2 DEF ReconcileSettles, End
  <2> QED BY <2>1, <2>2
<1>6. CASE AmbiguousRetry(u)
  BY <1>6 DEF AmbiguousRetry, Send
<1>7. CASE Sequencing(u)
  BY <1>7 DEF Sequencing, client_vars
<1> QED BY <1>1, <1>2, <1>3, <1>4, <1>5, <1>6, <1>7 DEF Progress

LEMMA OwnCallKept ==
  ASSUME WriterTypeOK, RunningHolds, CallIsOwn, NEW u \in Users, Progress(u)
  PROVE  OwnCall(u)'
<1>0. /\ mutation \in [Users -> Mutation] /\ mutation[u] \in Mutation
      /\ call \in [Users -> Call] /\ call[u] \in Call /\ SequencerTypeOK
      /\ OwnCall(u)
  BY DEF WriterTypeOK, ClientTypeOK, SequencerTypeOK, CallIsOwn
<1>1. CASE Begin(u)
  <2>1. mutation'[u].pc = "reserving"
    BY <1>0, <1>1 DEF Begin, Mutation
  <2>2. call'[u].pc = "waiting" /\ call'[u].op = "reserve"
    BY <1>0, <1>1, ReserveCalled DEF Begin
  <2> QED BY <2>1, <2>2 DEF OwnCall
<1>2. CASE ReserveGranted(u)
  <2>1. mutation'[u].pc = "attempting" /\ call'[u].pc = "idle"
    BY <1>0, <1>2 DEF ReserveGranted, ReserveReturns, IdleCall, Mutation
  <2> QED BY <2>1 DEF OwnCall
<1>3. CASE RejectedBeforeSend(u) \/ SequencerErrorEnds(u)
  <2>1. mutation[u].pc \in Running /\ End(u, "failed") /\ call'[u].pc = "idle"
    BY <1>0, <1>3
       DEF RejectedBeforeSend, SequencerErrorEnds, Running, ReserveReturns, FailureSeen, IdleCall
  <2>2. mutation'[u].pc = "failed"
    BY <2>1, EndIs DEF Ended
  <2> QED BY <2>1, <2>2 DEF OwnCall
<1>4. CASE Answered(u)
  <2>1. PICK next \in {"done", "behind", "attempting"} : StartReconcile(u, next)
    BY <1>4 DEF Answered
  <2>2. mutation'[u].pc = "reconciling" /\ mutation'[u].answer = reply[u].accepted
    BY <1>0, <2>1 DEF StartReconcile, Mutation
  <2>3. /\ call'[u].pc = "waiting" /\ call'[u].op = "reconcile"
        /\ call'[u].accepted = reply[u].accepted
    BY <1>0, <2>1, ReconcileCalled DEF StartReconcile
  <2> QED BY <2>2, <2>3 DEF OwnCall
<1>5. CASE ReconcileSettles(u)
  <2>1. call'[u].pc = "idle"
    BY <1>0, <1>5 DEF ReconcileSettles, Reconcile, IdleCall
  <2>2. mutation'[u].pc \in {"attempting"} \cup Ended
    <3>1. CASE mutation[u].next = "attempting"
      BY <1>0, <1>5, <3>1 DEF ReconcileSettles, Mutation
    <3>2. CASE mutation[u].next # "attempting"
      <4>1. /\ mutation[u].pc \in Running /\ mutation[u].next \in Ended
            /\ End(u, mutation[u].next)
        BY <1>0, <1>5, <3>2 DEF ReconcileSettles, Ended, Running, Mutation
      <4> QED BY <4>1, EndIs
    <3> QED BY <3>1, <3>2
  <2> QED BY <2>1, <2>2 DEF OwnCall, Ended
<1>6. CASE AmbiguousRetry(u)
  <2>1. /\ mutation'[u].pc = "attempting" /\ mutation[u].pc = "attempting"
        /\ call' = call
    BY <1>0, <1>6 DEF AmbiguousRetry, store_vars, Mutation
  <2> QED BY <1>0, <2>1 DEF OwnCall
<1>7. CASE GivesUp(u)
  <2>1. mutation[u].pc = "attempting" /\ End(u, "failed") /\ call' = call
    BY <1>7 DEF GivesUp, store_vars
  <2>2. mutation'[u].pc = "failed"
    BY <2>1, EndIs DEF Ended, Running
  <2> QED BY <1>0, <2>1, <2>2 DEF OwnCall
<1>8. CASE Sequencing(u)
  <2>1. mutation' = mutation /\ mutation[u].pc \in {"reserving", "reconciling"}
    BY <1>8 DEF Sequencing, client_vars
  <2>2. /\ call'[u].op = call[u].op /\ call'[u].accepted = call[u].accepted
        /\ call'[u].pc # "idle"
    BY <1>0, <1>8 DEF Sequencing, Load, PersistReserve, ReserveExhausted, StoreFails, Call
  <2> QED BY <1>0, <2>1, <2>2 DEF OwnCall
<1> QED BY <1>1, <1>2, <1>3, <1>4, <1>5, <1>6, <1>7, <1>8 DEF Progress

LEMMA CallIsOwnStep ==
  ASSUME WriterInv, CallIsOwn, [ClientNext]_writer_vars PROVE CallIsOwn'
<1> SUFFICES ASSUME NEW u \in Users PROVE OwnCall(u)'
  BY DEF CallIsOwn
<1>0. OwnCall(u) /\ WriterTypeOK /\ RunningHolds
  BY DEF CallIsOwn, WriterInv, SlotsAreQueues
<1>1. ASSUME NEW v \in Users, Progress(v) PROVE OwnCall(u)'
  <2>1. CASE v = u
    BY <1>0, <1>1, <2>1, OwnCallKept
  <2>2. CASE v # u
    <3>1. mutation'[u] = mutation[u] /\ call'[u] = call[u]
      BY <1>0, <1>1, <2>2, ProgressIs, OthersCallsKept
    <3> QED BY <1>0, <3>1 DEF OwnCall
  <2> QED BY <2>1, <2>2
<1>2. ASSUME NEW v \in Users, NEW c \in Clients, Submit(v, c) PROVE OwnCall(u)'
  <2>1. call' = call
    BY <1>2 DEF Submit, store_vars
  <2>2. \/ mutation'[u] = mutation[u]
        \/ mutation[u].pc = "idle" /\ mutation'[u].pc = "queued"
    BY <1>2, SubmitQueues
  <2> QED BY <1>0, <2>1, <2>2 DEF OwnCall
<1>3. ASSUME NEW m \in wire, Arrives(m) PROVE OwnCall(u)'
  <2>1. mutation' = mutation /\ call' = call
    BY <1>3, ArrivesIs DEF store_vars
  <2> QED BY <1>0, <2>1 DEF OwnCall
<1>4. CASE Crash
  <2>1. call'[u].pc = "idle"
    BY <1>4 DEF Crash, SequencerCrash, IdleCall
  <2>2. mutation'[u].pc \in {"idle"} \cup Ended
    BY <1>0, <1>4, CrashEnds DEF Ended
  <2> QED BY <2>1, <2>2 DEF OwnCall, Ended
<1>5. CASE UNCHANGED writer_vars
  BY <1>0, <1>5 DEF writer_vars, client_vars, store_vars, OwnCall
<1> QED BY <1>1, <1>2, <1>3, <1>4, <1>5 DEF ClientNext

LEMMA AnswersInRangeStep ==
  ASSUME WriterInv, WriterInv', AppliedInv, NumberInv, AnswersInRange, [ClientNext]_writer_vars
  PROVE  AnswersInRange'
<1>0. /\ 0 < MaxSafe /\ MaxSafe \in Int
      /\ mutation \in [Users -> Mutation]
      /\ reply \in [Users -> [kind : {"none", "ok", "behind", "retryable"},
                              accepted : 0..MaxSafe]]
  BY SequencerAssumption
     DEF SequencerAssumption, WriterInv, WriterTypeOK, ClientTypeOK
<1>1. accepted' < MaxSafe
  <2>1. \A m \in wire : m.seq < MaxSafe
    <3> TAKE m \in wire
    <3>1. m.user \in Users /\ mutation[m.user].seq = m.seq
      BY DEF WriterInv, WriterTypeOK, ClientTypeOK, AppliedInv, CopiesCarryNumbers
    <3> QED BY <1>0, <3>1, NumbersTyped DEF NumberInv, NumbersReturned
  <2> QED BY <2>1, ServerMoves DEF AnswersInRange
<1>2. ASSUME NEW u \in Users PROVE reply'[u].accepted < MaxSafe
  <2>1. ASSUME NEW v \in Users, Progress(v) PROVE reply'[u].accepted < MaxSafe
    BY <1>0, <2>1, AnswerIs DEF WriterInv, SlotsAreQueues, AnswersInRange
  <2>2. ASSUME NEW m \in wire, Arrives(m) PROVE reply'[u].accepted < MaxSafe
    <3>1. PICK kind \in {"ok", "behind", "retryable"} : Replies(m, kind)
      BY <2>2, ArrivesIs
    <3>2. reply'[u].accepted = reply[u].accepted \/ reply'[u].accepted = accepted'
      BY <1>0, <3>1 DEF Replies
    <3> QED BY <1>1, <3>2 DEF AnswersInRange
  <2>3. CASE Crash
    BY <1>0, <2>3 DEF Crash, NoReply
  <2>4. ASSUME NEW v \in Users, NEW c \in Clients, Submit(v, c) PROVE reply' = reply
    BY <2>4 DEF Submit
  <2>5. CASE UNCHANGED writer_vars
    BY <2>5 DEF writer_vars, client_vars, AnswersInRange
  <2> QED BY <2>1, <2>2, <2>3, <2>4, <2>5 DEF ClientNext, AnswersInRange
<1>3. ASSUME NEW u \in Users PROVE mutation'[u].answer < MaxSafe
  <2>0. mutation[u].answer < MaxSafe /\ reply[u].accepted < MaxSafe
    BY DEF AnswersInRange
  <2>1. ASSUME NEW v \in Users, Progress(v) PROVE mutation'[u].answer < MaxSafe
    BY <2>0, <2>1, AnswerIs, ProgressIs DEF WriterInv, SlotsAreQueues
  <2>2. ASSUME NEW v \in Users, NEW c \in Clients, Submit(v, c)
        PROVE  mutation'[u].answer = mutation[u].answer
    BY <2>2, SubmitQueues
  <2>3. ASSUME NEW m \in wire, Arrives(m) PROVE mutation' = mutation
    BY <2>3, ArrivesIs
  <2>4. CASE Crash
    BY <2>0, <2>4, CrashEnds DEF WriterInv
  <2>5. CASE UNCHANGED writer_vars
    BY <2>0, <2>5 DEF writer_vars, client_vars
  <2> QED BY <2>0, <2>1, <2>2, <2>3, <2>4, <2>5 DEF ClientNext
<1> QED BY <1>1, <1>2, <1>3 DEF AnswersInRange

(* A reconcile leaves a next number above what it was told.                *)
LEMMA ReconcileLearns ==
  ASSUME SequencerInv, NEW u \in Users, Reconcile(u), call[u].accepted < MaxSafe
  PROVE  call[u].accepted < CurrentNext'
<1>1. /\ call[u].current = CurrentNext /\ call[u].accepted \in 0..MaxSafe
      /\ CurrentNext \in 0..MaxSafe
  BY NextInRange DEF Reconcile, SequencerInv, SequencerTypeOK, Monotone, Call
<1>2. CASE ReconcileTarget(u) = call[u].current
  <2>1. call[u].accepted < CurrentNext
    BY <1>1, <1>2, SequencerAssumption DEF SequencerAssumption, ReconcileTarget, Larger
  <2>2. CurrentNext' = CurrentNext
    BY <1>2 DEF Reconcile, CurrentNext
  <2> QED BY <2>1, <2>2
<1>3. CASE ReconcileTarget(u) # call[u].current
  <2>1. stored' = ReconcileTarget(u)
    BY <1>1, <1>3, SequencerAssumption DEF SequencerAssumption, Reconcile
  <2>2. ReconcileTarget(u) >= call[u].accepted + 1 /\ ReconcileTarget(u) \in 0..MaxSafe
    BY <1>1, SequencerAssumption DEF SequencerAssumption, ReconcileTarget, Larger
  <2> QED
    BY <1>1, <2>1, <2>2, SequencerAssumption
       DEF SequencerAssumption, CurrentNext, Larger, Invalid
<1> QED BY <1>2, <1>3

LEMMA AnswerIsLearntStep ==
  ASSUME SingleObject, WriterInv, WriterInv', NumberInv, LearntInv, [ClientNext]_writer_vars
  PROVE  AnswerIsLearnt'
<1> SUFFICES ASSUME NEW u \in Users, mutation'[u].pc \in {"done", "behind"}
             PROVE  mutation'[u].answer < CurrentNext'
  BY DEF AnswerIsLearnt
<1>0. /\ CurrentNext \in Int /\ CurrentNext' \in Int /\ CurrentNext <= CurrentNext'
      /\ mutation[u].answer \in Int
  <2>1. SequencerInv /\ SequencerTypeOK'
    BY DEF NumberInv, WriterInv, WriterTypeOK, ClientTypeOK
  <2>2. CurrentNext \in 0..MaxSafe /\ CurrentNext' \in 0..MaxSafe
    <3>1. \A n \in -1..MaxSafe : (IF n = Invalid THEN Floor ELSE Larger(Floor, n)) \in 0..MaxSafe
      BY SequencerAssumption DEF SequencerAssumption, Larger, Invalid
    <3> QED BY <2>1, <3>1 DEF CurrentNext, SequencerInv, SequencerTypeOK
  <2>3. CurrentNext <= CurrentNext'
    BY <2>1, NumbersGrow, WriterStep DEF WriterInv
  <2>4. mutation[u] \in Mutation
    BY DEF WriterInv, WriterTypeOK, ClientTypeOK
  <2> QED BY <2>2, <2>3, <2>4, SequencerAssumption DEF SequencerAssumption, Mutation
<1>1. SUFFICES
        ASSUME ~(/\ mutation[u].pc \in {"done", "behind"}
                 /\ mutation'[u].answer = mutation[u].answer)
        PROVE  mutation'[u].answer < CurrentNext'
  BY <1>0 DEF LearntInv, AnswerIsLearnt
<1>2. ASSUME NEW v \in Users, Progress(v) PROVE mutation'[u].answer < CurrentNext'
  <2>1. v = u
    BY <1>1, <1>2, ProgressIs DEF WriterInv, SlotsAreQueues
  <2>2. /\ mutation[u].pc = "reconciling" /\ Reconcile(u)
        /\ mutation'[u].answer = mutation[u].answer
    BY <1>2, <2>1, AnswerIs DEF WriterInv, SlotsAreQueues
  <2>3. call[u].accepted = mutation[u].answer /\ call[u].accepted < MaxSafe
    BY <2>2 DEF LearntInv, CallIsOwn, OwnCall, AnswersInRange
  <2> QED BY <2>2, <2>3, ReconcileLearns DEF NumberInv
<1>3. ASSUME NEW v \in Users, NEW c \in Clients, Submit(v, c) PROVE FALSE
  BY <1>1, <1>3, SubmitQueues
<1>4. ASSUME NEW m \in wire, Arrives(m) PROVE FALSE
  BY <1>1, <1>4, ArrivesIs
<1>5. CASE Crash
  BY <1>1, <1>5, CrashEnds DEF WriterInv
<1>6. CASE UNCHANGED writer_vars
  BY <1>1, <1>6 DEF writer_vars, client_vars
<1> QED BY <1>2, <1>3, <1>4, <1>5, <1>6 DEF ClientNext

(* What the server said it accepted is learnt: a mutation that ended with  *)
(* an answer leaves a next number above it.                                *)
THEOREM AnswerIsLearntHolds == ASSUME SingleObject PROVE ClientSpec => []AnswerIsLearnt
<1>1. ClientInit => LearntInv
  <2> SUFFICES ASSUME ClientInit PROVE LearntInv
    OBVIOUS
  <2>1. \A u \in Users : mutation[u].pc = "idle" /\ mutation[u].answer = 0
    BY DEF ClientInit, IdleMutation
  <2>2. \A u \in Users : call[u].pc = "idle" /\ reply[u].accepted = 0
    BY DEF ClientInit, SequencerInit, IdleCall, NoReply
  <2>3. accepted < MaxSafe /\ 0 < MaxSafe
    BY SequencerAssumption DEF SequencerAssumption, ClientInit
  <2> QED
    BY <2>1, <2>2, <2>3 DEF LearntInv, CallIsOwn, OwnCall, AnswersInRange, AnswerIsLearnt
<1>2. WriterInv /\ WriterInv' /\ AppliedInv /\ NumberInv /\ LearntInv
      /\ [ClientNext]_writer_vars => LearntInv'
  BY CallIsOwnStep, AnswersInRangeStep, AnswerIsLearntStep DEF LearntInv
<1>3. LearntInv => AnswerIsLearnt
  BY DEF LearntInv
<1> QED BY <1>1, <1>2, <1>3, NumberInvHolds, PTL DEF ClientSpec


-----------------------------------------------------------------------------
(* Ends. *)

(* What waits for its send slot is in it.                                  *)
Waits(u) == \E i \in 1..Len(send_slot[mutation[u].client]) : send_slot[mutation[u].client][i] = u
QueuedWaits == \A u \in Users : mutation[u].pc = "queued" => Waits(u)

LEMMA QueuedWaitsStep ==
  ASSUME WriterInv, QueuedWaits, [ClientNext]_writer_vars PROVE QueuedWaits'
<1> SUFFICES ASSUME NEW u \in Users, mutation'[u].pc = "queued" PROVE Waits(u)'
  BY DEF QueuedWaits
<1>1. ASSUME NEW v \in Users, Progress(v) PROVE Waits(u)'
  <2>1. /\ Stays(v) \/ Ends(v)
        /\ \A w \in Users \ {v} : mutation'[w] = mutation[w]
    BY <1>1, ProgressIs DEF WriterInv, SlotsAreQueues
  <2>2. u # v
    BY <2>1 DEF Stays, Ends, Running, Ended
  <2>3. mutation'[u] = mutation[u] /\ Waits(u) /\ mutation[u].client \in Clients
    BY <2>1, <2>2 DEF QueuedWaits, WriterInv, WriterTypeOK, InSlot
  <2>4. CASE Stays(v)
    BY <2>3, <2>4 DEF Stays, Waits
  <2>5. CASE Ends(v)
    <3> DEFINE c == mutation[v].client
    <3>1. c \in Clients /\ send_slot[c] \in Seq(Users) /\ send_slot[c] # <<>>
          /\ send_slot[c][1] = v
      BY <2>5 DEF Ends, WriterInv, WriterTypeOK, InSlot, SlotsAreQueues, RunningHolds, Holds
    <3>2. /\ send_slot'[c] = Tail(send_slot[c])
          /\ \A d \in Clients \ {c} : send_slot'[d] = send_slot[d]
      BY <2>5, <3>1 DEF Ends, WriterInv, WriterTypeOK
    <3>3. /\ Len(send_slot'[c]) = Len(send_slot[c]) - 1 /\ Len(send_slot[c]) \in Nat
          /\ \A i \in 1..Len(send_slot'[c]) : send_slot'[c][i] = send_slot[c][i + 1]
      BY <3>1, <3>2
    <3>4. CASE mutation[u].client = c
      <4>1. PICK i \in 1..Len(send_slot[c]) : send_slot[c][i] = u
        BY <2>3, <3>4 DEF Waits
      <4>2. i - 1 \in 1..Len(send_slot'[c]) /\ send_slot'[c][i - 1] = u
        BY <2>2, <3>1, <3>3, <4>1
      <4> QED BY <2>3, <3>4, <4>2 DEF Waits
    <3>5. CASE mutation[u].client # c
      BY <2>3, <3>2, <3>5 DEF Waits
    <3> QED BY <3>4, <3>5
  <2> QED BY <2>1, <2>4, <2>5
<1>2. ASSUME NEW v \in Users, NEW c \in Clients, Submit(v, c) PROVE Waits(u)'
  <2>1. /\ send_slot[c] \in Seq(Users) /\ send_slot'[c] = Append(send_slot[c], v)
        /\ \A d \in Clients \ {c} : send_slot'[d] = send_slot[d]
    BY <1>2 DEF Submit, WriterInv, WriterTypeOK
  <2>2. /\ Len(send_slot'[c]) = Len(send_slot[c]) + 1 /\ Len(send_slot[c]) \in Nat
        /\ send_slot'[c][Len(send_slot[c]) + 1] = v
        /\ \A i \in 1..Len(send_slot[c]) : send_slot'[c][i] = send_slot[c][i]
    BY <2>1
  <2>3. CASE u = v
    <3>1. mutation'[u].client = c
      BY <1>2, <2>3 DEF Submit, WriterInv, WriterTypeOK, ClientTypeOK, Mutation
    <3>2. Len(send_slot[c]) + 1 \in 1..Len(send_slot'[c])
      BY <2>2
    <3> QED BY <2>2, <2>3, <3>1, <3>2 DEF Waits
  <2>4. CASE u # v
    <3>1. mutation'[u] = mutation[u] /\ Waits(u) /\ mutation[u].client \in Clients
      BY <1>2, <2>4, SubmitQueues DEF QueuedWaits, WriterInv, WriterTypeOK, InSlot
    <3>2. CASE mutation[u].client = c
      <4>1. PICK i \in 1..Len(send_slot[c]) : send_slot[c][i] = u
        BY <3>1, <3>2 DEF Waits
      <4>2. i \in 1..Len(send_slot'[c]) /\ send_slot'[c][i] = u
        BY <2>2, <4>1
      <4> QED BY <3>1, <3>2, <4>2 DEF Waits
    <3>3. CASE mutation[u].client # c
      BY <2>1, <3>1, <3>3 DEF Waits
    <3> QED BY <3>2, <3>3
  <2> QED BY <2>3, <2>4
<1>3. ASSUME NEW m \in wire, Arrives(m) PROVE Waits(u)'
  BY <1>3, ArrivesIs DEF QueuedWaits, Waits
<1>4. CASE Crash
  BY <1>4, CrashEnds DEF WriterInv, Ended
<1>5. CASE UNCHANGED writer_vars
  BY <1>5 DEF writer_vars, client_vars, QueuedWaits, Waits
<1> QED BY <1>1, <1>2, <1>3, <1>4, <1>5 DEF ClientNext

(* The guards of a mutation's own steps: what it can do without anybody    *)
(* else.                                                                   *)
OwnStepIs(u) ==
  \/ call[u].pc = "waiting" /\ slot[call[u].object] = Free
  \/ call[u].pc = "loaded"
       /\ call[u].op = (IF mutation[u].pc = "reserving" THEN "reserve" ELSE "reconcile")
  \/ call[u].pc = "stored" /\ call[u].op = "reserve" /\ mutation[u].pc = "reserving"
  \/ call[u].pc = "failed"

Ready(u) ==
  \/ mutation[u].pc = "queued" /\ Holds(u) /\ call[u].pc = "idle"
  \/ mutation[u].pc = "attempting"
  \/ mutation[u].pc \in {"reserving", "reconciling"} /\ OwnStepIs(u)

(* Mutations, send slots and sequencer slots never all wait for each       *)
(* other: while one is unfinished, one can go on by itself.                *)
NeverStuck ==
  (\E u \in Users : mutation[u].pc \in InSlot) => \E u \in Users : Ready(u)

(* A call that does not wait for a slot moves.                             *)
LEMMA CallsMove ==
  ASSUME WriterTypeOK, CallIsOwn, SlotsAreInUse, NEW u \in Users, call[u].pc # "idle",
         call[u].pc = "waiting" => slot[call[u].object] = Free
  PROVE  Ready(u)
<1>1. mutation[u].pc \in {"reserving", "reconciling"} /\ OwnCall(u)
  BY DEF CallIsOwn, OwnCall
<1>2. call[u].pc \in CallPcs
  BY DEF WriterTypeOK, ClientTypeOK, SequencerTypeOK, Call
<1>3. call[u].pc = "stored" => call[u].op = "reserve"
  BY DEF SlotsAreInUse
<1> QED BY <1>1, <1>2, <1>3 DEF CallPcs, OwnCall, Ready, OwnStepIs

LEMMA NeverStuckFollows ==
  ASSUME WriterInv, CallIsOwn, SlotsAreInUse, QueuedWaits PROVE NeverStuck
<1> SUFFICES ASSUME NEW u \in Users, mutation[u].pc \in InSlot PROVE \E v \in Users : Ready(v)
  BY DEF NeverStuck
<1> DEFINE c == mutation[u].client
<1>1. c \in Clients /\ send_slot[c] \in Seq(Users) /\ c # Free
  BY PresenceClientAssumption DEF PresenceClientAssumption, WriterInv, WriterTypeOK
<1>2. send_slot[c] # <<>>
  <2>1. CASE mutation[u].pc = "queued"
    BY <1>1, <2>1 DEF QueuedWaits, Waits
  <2>2. CASE mutation[u].pc \in Running
    BY <2>2 DEF WriterInv, SlotsAreQueues, RunningHolds, Holds
  <2> QED BY <2>1, <2>2 DEF InSlot
<1> DEFINE head == Head(send_slot[c])
<1>3. head \in Users /\ mutation[head].client = c /\ mutation[head].pc \in InSlot
  <2>1. head = send_slot[c][1] /\ 1 \in 1..Len(send_slot[c]) /\ head \in Users
    BY <1>1, <1>2
  <2> QED BY <1>1, <2>1 DEF WriterInv, SlotsAreQueues, QueuesAreOfClients
<1> HIDE DEF head
<1>4. CASE mutation[head].pc = "queued"
  <2>1. call[head].pc = "idle"
    BY <1>3, <1>4 DEF CallIsOwn, OwnCall
  <2>2. Holds(head)
    BY <1>1, <1>2, <1>3 DEF Holds, head
  <2> QED BY <1>3, <1>4, <2>1, <2>2 DEF Ready
<1>5. CASE mutation[head].pc = "attempting"
  BY <1>3, <1>5 DEF Ready
<1>6. CASE mutation[head].pc \in {"reserving", "reconciling"}
  <2>1. call[head].pc # "idle" /\ call[head].object \in Objects
    BY <1>3, <1>6 DEF CallIsOwn, OwnCall, SlotsAreInUse, Called
  <2> DEFINE holder == slot[call[head].object]
  <2>2. CASE call[head].pc # "waiting" \/ holder = Free
    BY <1>3, <2>1, <2>2, CallsMove DEF WriterInv
  <2>3. CASE holder # Free
    <3>1. holder \in Users
      BY <2>1, <2>3 DEF WriterInv, WriterTypeOK, ClientTypeOK, SequencerTypeOK
    <3>2. call[holder].pc \in {"loaded", "stored"}
      BY <2>1, <2>3 DEF SlotsAreInUse
    <3> QED BY <3>1, <3>2, CallsMove DEF WriterInv
  <2> QED BY <2>2, <2>3
<1> QED BY <1>3, <1>4, <1>5, <1>6 DEF InSlot, Running

(* Whatever the number of mutations, clients and sequencer objects.        *)
THEOREM NeverStuckHolds == ClientSpec => []NeverStuck
<1>1. ClientInit => CallIsOwn /\ SlotsAreInUse /\ QueuedWaits
  <2> SUFFICES ASSUME ClientInit PROVE CallIsOwn /\ SlotsAreInUse /\ QueuedWaits
    OBVIOUS
  <2>1. \A u \in Users : mutation[u].pc = "idle" /\ call[u].pc = "idle"
    BY DEF ClientInit, SequencerInit, IdleMutation, IdleCall
  <2> QED BY <2>1, SlotsAreInUseInit DEF ClientInit, CallIsOwn, OwnCall, QueuedWaits
<1>2. WriterInv /\ SlotsAreInUse /\ [ClientNext]_writer_vars => SlotsAreInUse'
  BY WriterStep, SlotsAreInUseStep DEF WriterInv, WriterTypeOK, ClientTypeOK
<1> QED
  BY <1>1, <1>2, CallIsOwnStep, QueuedWaitsStep, NeverStuckFollows, WriterInvHolds, PTL
     DEF ClientSpec

(* The steps a mutation has in front of it, at most: those of its call     *)
(* (slot, store or release), its attempts and the reconcile of each.       *)
CallSteps(u) == CASE call[u].pc = "waiting" -> 2 [] call[u].pc = "loaded" -> 1 [] OTHER -> 0
StepsLeft(u) ==
  CASE mutation[u].pc = "queued" -> 12
    [] mutation[u].pc = "reserving" -> 9 + CallSteps(u)
    [] mutation[u].pc = "attempting" -> IF mutation[u].attempt = 1 THEN 8 ELSE 4
    [] mutation[u].pc = "reconciling" ->
         (IF mutation[u].next = "attempting" THEN 5 ELSE 1) + CallSteps(u)
    [] OTHER -> 0

(* Every step of a mutation's own brings it nearer its end, and nothing    *)
(* that others, the network, the server or a crash do takes it back: with  *)
(* NeverStuck, what is left to MutationEnds is that its task is polled.    *)
StepsRunOut ==
  [][\A u \in Users :
       /\ mutation[u].pc # "idle" => StepsLeft(u)' <= StepsLeft(u)
       /\ Progress(u) => StepsLeft(u)' < StepsLeft(u)]_writer_vars

LEMMA EndedHasNoSteps ==
  ASSUME NEW u \in Users
  PROVE  /\ mutation[u].pc \in Ended => StepsLeft(u) = 0
         /\ mutation[u].pc \in Running => StepsLeft(u) > 0 /\ StepsLeft(u) \in Nat
         /\ CallSteps(u) \in 0..2 /\ StepsLeft(u) \in 0..12
BY DEF StepsLeft, CallSteps, Running, Ended

LEMMA ProgressDescends ==
  ASSUME WriterTypeOK, RunningHolds, NEW u \in Users, Progress(u)
  PROVE  StepsLeft(u)' < StepsLeft(u)
<1>0. /\ mutation \in [Users -> Mutation] /\ mutation[u] \in Mutation
      /\ call \in [Users -> Call] /\ call[u] \in Call /\ SequencerTypeOK
  BY DEF WriterTypeOK, ClientTypeOK, SequencerTypeOK
<1>1. CallSteps(u) \in 0..2 /\ CallSteps(u)' \in 0..2
  BY DEF CallSteps
<1>2. CASE Begin(u)
  <2>1. mutation[u].pc = "queued" /\ mutation'[u].pc = "reserving"
    BY <1>0, <1>2 DEF Begin, Mutation
  <2> QED BY <1>1, <2>1 DEF StepsLeft
<1>3. CASE ReserveGranted(u)
  <2>1. /\ mutation[u].pc = "reserving" /\ mutation'[u].pc = "attempting"
        /\ mutation'[u].attempt = 1
    BY <1>0, <1>3 DEF ReserveGranted, Mutation
  <2> QED BY <1>1, <2>1 DEF StepsLeft
<1>4. CASE RejectedBeforeSend(u) \/ SequencerErrorEnds(u) \/ GivesUp(u)
  <2>1. mutation[u].pc \in Running /\ mutation'[u].pc = "failed"
    <3>1. mutation[u].pc \in Running /\ End(u, "failed")
      BY <1>4 DEF RejectedBeforeSend, SequencerErrorEnds, GivesUp, Running
    <3> QED BY <3>1, EndIs DEF Ended
  <2> QED BY <1>1, <2>1 DEF StepsLeft, Running
<1>5. CASE Answered(u)
  <2>1. PICK next \in {"done", "behind", "attempting"} :
          /\ StartReconcile(u, next)
          /\ next = "attempting" => mutation[u].attempt = 1
    BY <1>5 DEF Answered
  <2>2. /\ mutation[u].pc = "attempting"
        /\ mutation'[u].pc = "reconciling" /\ mutation'[u].next = next
    BY <1>0, <1>5, <2>1 DEF Answered, StartReconcile, Mutation
  <2> QED BY <1>1, <2>1, <2>2 DEF StepsLeft
<1>6. CASE ReconcileSettles(u)
  <2>1. mutation[u].pc = "reconciling"
    BY <1>6 DEF ReconcileSettles
  <2>2. CASE mutation[u].next = "attempting"
    <3>1. mutation'[u].pc = "attempting" /\ mutation'[u].attempt = 2
      BY <1>0, <1>6, <2>2 DEF ReconcileSettles, Mutation
    <3> QED BY <1>1, <2>1, <2>2, <3>1 DEF StepsLeft
  <2>3. CASE mutation[u].next # "attempting"
    <3>1. /\ mutation[u].pc \in Running /\ mutation[u].next \in Ended
          /\ End(u, mutation[u].next)
      BY <1>0, <1>6, <2>3 DEF ReconcileSettles, Ended, Running, Mutation
    <3>2. mutation'[u].pc \in Ended
      BY <3>1, EndIs
    <3> QED BY <1>1, <2>1, <2>3, <3>2 DEF StepsLeft, Ended
  <2> QED BY <2>2, <2>3
<1>7. CASE AmbiguousRetry(u)
  <2>1. /\ mutation[u].pc = "attempting" /\ mutation[u].attempt = 1
        /\ mutation'[u].pc = "attempting" /\ mutation'[u].attempt = 2
    BY <1>0, <1>7 DEF AmbiguousRetry, Mutation
  <2> QED BY <2>1 DEF StepsLeft
<1>8. CASE Sequencing(u)
  <2>1. mutation' = mutation /\ mutation[u].pc \in {"reserving", "reconciling"}
    BY <1>8 DEF Sequencing, client_vars
  <2>2. \/ call[u].pc = "waiting" /\ call'[u].pc = "loaded"
        \/ call[u].pc = "loaded" /\ call'[u].pc \in {"stored", "failed"}
    BY <1>0, <1>8 DEF Sequencing, Load, PersistReserve, ReserveExhausted, StoreFails, Call
  <2>3. CallSteps(u)' < CallSteps(u)
    BY <2>2 DEF CallSteps
  <2> QED BY <1>1, <2>1, <2>3 DEF StepsLeft
<1> QED BY <1>2, <1>3, <1>4, <1>5, <1>6, <1>7, <1>8 DEF Progress

(* Retries included, so a mutation whose task is polled cannot go on for   *)
(* ever: 12 steps are the most that publish or clear takes.                *)
THEOREM StepsRunOutHolds == ClientSpec => StepsRunOut
<1> DEFINE Descend ==
             \A u \in Users :
               /\ mutation[u].pc # "idle" => StepsLeft(u)' <= StepsLeft(u)
               /\ Progress(u) => StepsLeft(u)' < StepsLeft(u)
<1>1. WriterInv /\ [ClientNext]_writer_vars => [Descend]_writer_vars
  <2> SUFFICES ASSUME WriterInv, ClientNext, NEW u \in Users
               PROVE  /\ mutation[u].pc # "idle" => StepsLeft(u)' <= StepsLeft(u)
                      /\ Progress(u) => StepsLeft(u)' < StepsLeft(u)
    OBVIOUS
  <2>1. Progress(u) => StepsLeft(u)' < StepsLeft(u)
    BY ProgressDescends DEF WriterInv, SlotsAreQueues
  <2>2. StepsLeft(u) \in 0..12 /\ StepsLeft(u)' \in 0..12
    BY EndedHasNoSteps DEF StepsLeft, CallSteps
  <2>3. mutation'[u] = mutation[u] /\ call'[u] = call[u] => StepsLeft(u)' = StepsLeft(u)
    BY DEF StepsLeft, CallSteps
  <2>4. ASSUME NEW v \in Users \ {u}, Progress(v) PROVE StepsLeft(u)' <= StepsLeft(u)
    <3>1. mutation'[u] = mutation[u] /\ call'[u] = call[u]
      BY <2>4, ProgressIs, OthersCallsKept DEF WriterInv, SlotsAreQueues
    <3> QED BY <2>2, <2>3, <3>1
  <2>5. ASSUME NEW v \in Users, NEW c \in Clients, Submit(v, c), mutation[u].pc # "idle"
        PROVE  StepsLeft(u)' <= StepsLeft(u)
    <3>1. mutation'[u] = mutation[u] /\ call'[u] = call[u]
      BY <2>5, SubmitQueues DEF store_vars
    <3> QED BY <2>2, <2>3, <3>1
  <2>6. ASSUME NEW m \in wire, Arrives(m) PROVE StepsLeft(u)' <= StepsLeft(u)
    <3>1. mutation'[u] = mutation[u] /\ call'[u] = call[u]
      BY <2>6, ArrivesIs DEF store_vars
    <3> QED BY <2>2, <2>3, <3>1
  <2>7. ASSUME Crash, mutation[u].pc # "idle" PROVE StepsLeft(u)' <= StepsLeft(u)
    <3>1. mutation'[u].pc \in Ended
      BY <2>7, CrashEnds DEF WriterInv, Ended
    <3>2. StepsLeft(u)' = 0
      BY <3>1 DEF StepsLeft, Ended
    <3> QED BY <2>2, <3>2
  <2> QED BY <2>1, <2>2, <2>4, <2>5, <2>6, <2>7 DEF ClientNext
<1> QED BY <1>1, WriterInvHolds, PTL DEF ClientSpec, StepsRunOut
===============================================================================
