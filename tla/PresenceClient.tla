---------------------------- MODULE PresenceClient ----------------------------
(***************************************************************************)
(* The ordered writer: presence mutations (publish and clear) of one       *)
(* device, from PresenceClient (core/src/companion/presence_client.rs)     *)
(* over the sequencer, to the Companion server.                            *)
(*                                                                         *)
(* Each client has a FIFO send slot, held from the reserve to the end of   *)
(* the mutation.  A mutation is sent at most twice with the same bytes.    *)
(* The network delays and drops (a copy need never arrive): a copy whose   *)
(* sender gave up may still arrive, also after a crash of the program.     *)
(* Each user of the sequencer is one mutation.                             *)
(***************************************************************************)
EXTENDS Sequencer, Sequences, SequencesExt, FiniteSets

CONSTANTS
  Clients,        (* one per negotiation, over the sequencers of Objects   *)
  SequencerOf     (* the sequencer object of each client                   *)

(* A mutation that was not submitted has no client: Free. *)
ASSUME PresenceClientAssumption == SequencerOf \in [Clients -> Objects] /\ Free \notin Clients

VARIABLES
  mutation,       (* progress of each mutation                             *)
  send_slot,      (* per client, its holder (head) and who awaits it       *)
  wire,           (* copies of requests that may still arrive              *)
  reply,          (* the server's reply to the current attempt, if any     *)
  accepted,       (* server: the highest sequence it accepted              *)
  applied         (* server: the mutations it applied, in order            *)

client_vars == <<mutation, send_slot, wire, reply, accepted, applied>>
writer_vars == <<store_vars, client_vars>>

Running == {"reserving", "attempting", "reconciling"}
Ended == {"done", "behind", "failed"}
NoReply == [kind |-> "none", accepted |-> 0]

(* seq is -1 without a number: a number may be 0, when the floor is.       *)
Mutation == [pc : {"idle", "queued"} \cup Running \cup Ended, client : Clients \cup {Free},
             seq : -1..MaxSafe, attempt : 0..2, answer : 0..MaxSafe,
             next : {"done", "behind", "attempting"}]
IdleMutation == [pc |-> "idle", client |-> Free, seq |-> -1, attempt |-> 0, answer |-> 0,
                 next |-> "done"]

ClientTypeOK ==
  /\ SequencerTypeOK
  /\ mutation \in [Users -> Mutation]
  /\ \A c \in Clients : send_slot[c] \in Seq(Users)
  /\ wire \subseteq [user : Users, attempt : 1..2, seq : 0..MaxSafe]
  /\ reply \in [Users -> [kind : {"none", "ok", "behind", "retryable"}, accepted : 0..MaxSafe]]
  /\ accepted \in 0..MaxSafe
  /\ applied \in Seq(Users)

(* The server may be ahead of the stored sequence (a lost or corrupt file  *)
(* heals to the floor).                                                    *)
ClientInit ==
  /\ SequencerInit
  /\ mutation = [u \in Users |-> IdleMutation]
  /\ send_slot = [c \in Clients |-> <<>>]
  /\ wire = {} /\ applied = <<>>
  /\ reply = [u \in Users |-> NoReply]
  /\ accepted \in 0..(MaxSafe - 2)

(* Faulty variants (named <operator>_<fault>): see PROJECT.json.           *)
Holds_NoSlot(u) == mutation[u].client # Free

Holds(u) == /\ mutation[u].client # Free
            /\ send_slot[mutation[u].client] # <<>>
            /\ Head(send_slot[mutation[u].client]) = u

(* The guard of the send slot is dropped on every way out, and no one      *)
(* listens for a reply any more.                                           *)
Finished(u, pc) == [mutation[u] EXCEPT !.pc = pc, !.attempt = 0, !.next = "done"]

End_KeepsSlot(u, pc) ==
  /\ mutation' = [mutation EXCEPT ![u] = Finished(u, pc)]
  /\ reply' = [reply EXCEPT ![u] = NoReply]
  /\ UNCHANGED send_slot

End(u, pc) ==
  /\ mutation' = [mutation EXCEPT ![u] = Finished(u, pc)]
  /\ send_slot' = [send_slot EXCEPT ![mutation[u].client] = Tail(@)]
  /\ reply' = [reply EXCEPT ![u] = NoReply]

Submit(u, c) ==
  /\ mutation[u].pc = "idle"
  /\ mutation' = [mutation EXCEPT ![u].pc = "queued", ![u].client = c]
  /\ send_slot' = [send_slot EXCEPT ![c] = Append(@, u)]
  /\ UNCHANGED <<store_vars, wire, reply, accepted, applied>>

(* The send slot is granted, the mutation reserves its sequence.           *)
Begin(u) ==
  /\ mutation[u].pc = "queued" /\ Holds(u)
  /\ CallReserve(u, SequencerOf[mutation[u].client])
  /\ mutation' = [mutation EXCEPT ![u].pc = "reserving"]
  /\ UNCHANGED <<send_slot, wire, reply, accepted, applied>>

Send(u, seq, attempt) ==
  /\ wire' = wire \cup {[user |-> u, attempt |-> attempt, seq |-> seq]}
  /\ reply' = [reply EXCEPT ![u] = NoReply]

ReserveGranted_BeforePersist(u) ==
  /\ mutation[u].pc = "reserving" /\ call[u].pc = "loaded" /\ call[u].op = "reserve"
  /\ Release(u)
  /\ call' = [call EXCEPT ![u] = IdleCall]
  /\ last' = call[u].current /\ count' = count + 1
  /\ mutation' = [mutation EXCEPT ![u].pc = "attempting", ![u].attempt = 1,
                                  ![u].seq = call[u].current]
  /\ Send(u, call[u].current, 1)
  /\ UNCHANGED <<stored, crashes, send_slot, accepted, applied>>

ReserveGranted(u) ==
  /\ mutation[u].pc = "reserving"
  /\ ReserveReturns(u)
  /\ mutation' = [mutation EXCEPT ![u].pc = "attempting", ![u].attempt = 1,
                                  ![u].seq = call[u].current]
  /\ Send(u, call[u].current, 1)
  /\ UNCHANGED <<send_slot, accepted, applied>>

(* Mapping, the payload cap or the device guard reject the request before  *)
(* any network I/O: the sequence becomes a gap.                            *)
RejectedBeforeSend(u) ==
  /\ mutation[u].pc = "reserving"
  /\ ReserveReturns(u)
  /\ End(u, "failed")
  /\ UNCHANGED <<wire, accepted, applied>>

(* A failed reserve or a failed reconcile fails the mutation.              *)
SequencerErrorEnds(u) ==
  /\ mutation[u].pc \in {"reserving", "reconciling"}
  /\ FailureSeen(u)
  /\ End(u, "failed")
  /\ UNCHANGED <<wire, accepted, applied>>

StartReconcile_Skipped(u, next) ==
  /\ mutation' = [mutation EXCEPT ![u] = [Finished(u, IF next = "attempting" THEN "failed" ELSE next)
                                          EXCEPT !.answer = reply[u].accepted]]
  /\ send_slot' = [send_slot EXCEPT ![mutation[u].client] = Tail(@)]
  /\ reply' = [reply EXCEPT ![u] = NoReply]
  /\ UNCHANGED <<store_vars, wire, accepted, applied>>

StartReconcile(u, next) ==
  /\ CallReconcile(u, SequencerOf[mutation[u].client], reply[u].accepted)
  /\ mutation' = [mutation EXCEPT ![u].pc = "reconciling", ![u].next = next,
                                  ![u].answer = reply[u].accepted]
  /\ UNCHANGED <<send_slot, wire, reply, accepted, applied>>

(* A success, or an error that carries acceptedSequence, is reconciled     *)
(* before anything else is decided; only then a retryable error is retried *)
(* once.                                                                   *)
Answered(u) ==
  /\ mutation[u].pc = "attempting"
  /\ \/ reply[u].kind = "ok" /\ StartReconcile(u, "done")
     \/ reply[u].kind = "behind" /\ StartReconcile(u, "behind")
     \/ reply[u].kind = "retryable" /\ mutation[u].attempt = 1 /\ StartReconcile(u, "attempting")
     \/ reply[u].kind = "retryable" /\ mutation[u].attempt = 2 /\ StartReconcile(u, "behind")

ReconcileSettles(u) ==
  /\ mutation[u].pc = "reconciling"
  /\ Reconcile(u)
  /\ IF mutation[u].next = "attempting"
     THEN /\ mutation' = [mutation EXCEPT ![u].pc = "attempting", ![u].attempt = 2]
          /\ Send(u, mutation[u].seq, 2)
          /\ UNCHANGED send_slot
     ELSE /\ End(u, mutation[u].next)
          /\ UNCHANGED wire
  /\ UNCHANGED <<accepted, applied>>

AmbiguousRetry_NewSequence(u) ==
  /\ mutation[u].pc = "attempting" /\ mutation[u].attempt = 1
  /\ CallReserve(u, SequencerOf[mutation[u].client])
  /\ mutation' = [mutation EXCEPT ![u].pc = "reserving"]
  /\ UNCHANGED <<send_slot, wire, reply, accepted, applied>>

(* Network failure, timeout, an empty, undecodable or foreign response, a  *)
(* bare 5xx: the server may or may not have applied the request.           *)
AmbiguousRetry(u) ==
  /\ mutation[u].pc = "attempting" /\ mutation[u].attempt = 1
  /\ mutation' = [mutation EXCEPT ![u].attempt = 2]
  /\ Send(u, mutation[u].seq, 2)
  /\ UNCHANGED <<store_vars, send_slot, accepted, applied>>

(* The second ambiguous failure, or an error that is not safe to retry.    *)
GivesUp(u) ==
  /\ mutation[u].pc = "attempting"
  /\ End(u, "failed")
  /\ UNCHANGED <<store_vars, wire, accepted, applied>>

Sequencing(u) ==
  /\ mutation[u].pc \in {"reserving", "reconciling"}
  /\ \/ Load(u) \/ PersistReserve(u) \/ ReserveExhausted(u) \/ StoreFails(u)
  /\ UNCHANGED client_vars

(* The server: a fresh sequence is applied, the same request is answered   *)
(* again, an older one is told what was accepted; it may also be           *)
(* unavailable. Only the current attempt still listens.                    *)
Arrives(m) ==
  /\ m \in wire
  /\ wire' = wire \ {m}
  /\ LET fresh == m.seq > accepted
         again == m.seq = accepted /\ m.user \in Range(applied)
         Reply(kind, acc) ==
           reply' = IF mutation[m.user].pc = "attempting" /\ mutation[m.user].attempt = m.attempt
                    THEN [reply EXCEPT ![m.user] = [kind |-> kind, accepted |-> acc]]
                    ELSE reply
     IN \/ /\ fresh
           /\ accepted' = m.seq /\ applied' = Append(applied, m.user)
           /\ Reply("ok", m.seq)
        \/ /\ again /\ Reply("ok", accepted) /\ UNCHANGED <<accepted, applied>>
        \/ /\ ~fresh /\ ~again /\ Reply("behind", accepted) /\ UNCHANGED <<accepted, applied>>
        \/ /\ Reply("retryable", accepted) /\ UNCHANGED <<accepted, applied>>
  /\ UNCHANGED <<store_vars, mutation, send_slot>>

(* The process dies: mutations in progress end, their copies stay out.     *)
Crash ==
  /\ SequencerCrash
  /\ mutation' = [u \in Users |-> IF mutation[u].pc \in {"idle"} \cup Ended THEN mutation[u]
                                  ELSE Finished(u, "failed")]
  /\ send_slot' = [c \in Clients |-> <<>>]
  /\ reply' = [u \in Users |-> NoReply]
  /\ UNCHANGED <<wire, accepted, applied>>

Progress(u) ==
  \/ Begin(u) \/ ReserveGranted(u) \/ RejectedBeforeSend(u) \/ SequencerErrorEnds(u)
  \/ Answered(u) \/ ReconcileSettles(u) \/ AmbiguousRetry(u) \/ GivesUp(u) \/ Sequencing(u)

ClientNext ==
  \/ \E u \in Users : Progress(u) \/ \E c \in Clients : Submit(u, c)
  \/ \E m \in wire : Arrives(m)
  \/ Crash

ClientSpec == ClientInit /\ [][ClientNext]_writer_vars

(* A submitted mutation's task is always polled and its requests time out. *)
FairClientSpec == ClientSpec /\ \A u \in Users : WF_writer_vars(Progress(u))

-----------------------------------------------------------------------------
(* Properties. *)

(* What is on the wire is already behind the durable next sequence, so a   *)
(* crash after the send cannot lead to another request with its number.    *)
DurableBeforeSend == \A m \in wire : m.seq < CurrentNext

(* A mutation has a number only while it holds its client's send slot, and *)
(* the numbers of one client grow in the order the slot was granted.       *)
SequencesFollowQueue ==
  \A u, v \in Users :
    /\ u # v /\ mutation[u].client = mutation[v].client
    /\ mutation[u].pc = "attempting" /\ mutation[v].pc # "idle"
    => \/ mutation[v].pc = "queued"
       \/ mutation[v].pc \in Ended /\ mutation[v].seq < mutation[u].seq

(* A retry, a late copy or a crash never makes the server apply one        *)
(* mutation twice, and it applies them in the order of their numbers.      *)
AppliedOnceInOrder ==
  \A i, j \in DOMAIN applied : i < j =>
    /\ applied[i] # applied[j]
    /\ mutation[applied[i]].seq < mutation[applied[j]].seq

(* What the server said it accepted is learnt: a mutation that ended with  *)
(* an answer leaves a next sequence above it, so the following mutation is *)
(* not behind.                                                             *)
AnswerIsLearnt ==
  \A u \in Users : mutation[u].pc \in {"done", "behind"} => mutation[u].answer < CurrentNext

(* The send slot is released on every path: every submitted mutation ends. *)
MutationEnds ==
  \A u \in Users : []<>(mutation[u].pc \in {"idle"} \cup Ended)
==============================================================================
