--------------------------- MODULE StreamController ---------------------------
(***************************************************************************)
(* internal/controller/stream/stream_controller.go and                     *)
(* pkg/nginxpm/stream.go: every Stream resource has a TCP/UDP stream of    *)
(* its own in NPM.  What makeForward finds in the cluster (Forwarding) is  *)
(* dest[k], which the cluster changes under the reconciler.                *)
(***************************************************************************)
EXTENDS ResourceReconciler

CONSTANTS Destinations,       \* what a Service or the listed hosts resolve to
          NoDest,             \* makeForward fails
          UnscopedSupported   \* NPM reports the unscoped_config field

ASSUME UnscopedAssumption == UnscopedSupported \in BOOLEAN

ASSUME DestinationsAssumption == Destinations \subseteq [port: Nat, balanced: BOOLEAN]

VARIABLE dest    \* dest[k]: the destination of stream k in the cluster now

streamVars == <<vars, dest>>

StreamSpec == [incoming: Nat, overwrite: BOOLEAN, tcp: BOOLEAN, udp: BOOLEAN]

Stream ==
  [spec: StreamSpec, deleting: BOOLEAN, fin: BOOLEAN, id: Ids \cup {NoId},
   conds: SUBSET ConditionTypes, incoming: Nat, forwarding: Nat]

Bodies == [incoming: Nat, port: Nat, balanced: BOOLEAN, tcp: BOOLEAN, udp: BOOLEAN]

ASSUME StreamsAssumption ==
  Specs \subseteq StreamSpec /\ NoObj \notin Stream /\ NoRemote \notin Bodies

\* Mutant: an id that was never assigned is 0, not nil.
NewStreamZeroId(s) ==
  [spec |-> s, deleting |-> FALSE, fin |-> FALSE, id |-> 0, conds |-> {},
   incoming |-> 0, forwarding |-> 0]

NewStream(s) ==
  [spec |-> s, deleting |-> FALSE, fin |-> FALSE, id |-> NoId, conds |-> {},
   incoming |-> 0, forwarding |-> 0]

PCs == {"idle", "finalizer", "reconciling", "client", "delete", "removeFinalizer", "find",
        "prepare", "write", "followUp", "save", "ready", "fail", "done", "requeue"}

\* r.Update sends the typed object: tcpForwarding and udpForwarding are encoded
\* with omitempty and the CRD puts its default, true, in place of a false one.
Encoded(o) == [o EXCEPT !.spec.tcp = TRUE, !.spec.udp = TRUE]
-----------------------------------------------------------------------------
FindStreamByID ==
  /\ pc = "find"
  /\ \/ /\ rid' = IF obj.id # NoId /\ Alive(obj.id) THEN obj.id ELSE NoId
        /\ pc' = "prepare"
        /\ UNCHANGED faults
     \/ obj.id # NoId /\ Fault("npm") /\ pc' = "fail" /\ UNCHANGED rid
  /\ UNCHANGED <<kubeVars, req, obj, fresh, marked, input, remoteVars, ops, dest>>

\* The forward: an upstream block balances over several hosts only when NPM
\* reports the unscoped_config field, which it does only of a stream it has.
Forward(d, supported) ==
  [port |-> d.port, balanced |-> d.balanced /\ supported]

\* StreamRequestInput, built from the object read at the start and the
\* cluster as it is now.
RequestInput(o, d, supported) ==
  LET f == Forward(d, supported)
  IN  [incoming |-> IF o.spec.overwrite THEN f.port ELSE o.spec.incoming,
       port |-> f.port, balanced |-> f.balanced, tcp |-> o.spec.tcp, udp |-> o.spec.udp]

\* makeForward and RetrieveCertificate: they read, and either may fail.
PrepareInput ==
  /\ pc = "prepare"
  /\ \/ /\ dest[req] # NoDest
        /\ input' = RequestInput(obj, dest[req], rid # NoId /\ UnscopedSupported)
        /\ pc' = "write"
        /\ UNCHANGED faults
     \/ dest[req] = NoDest /\ pc' = "fail" /\ UNCHANGED <<input, faults>>
     \/ Fault("prepare") /\ pc' = "fail" /\ UNCHANGED input
  /\ UNCHANGED <<kubeVars, req, obj, fresh, marked, rid, remoteVars, ops, dest>>

CreateStream ==
  /\ pc = "write"
  /\ rid = NoId
  /\ \E ok \in BOOLEAN :
       /\ CreateRemote(input, FALSE, ok)
       /\ pc' = IF ok THEN "followUp" ELSE "fail"
       /\ rid' = IF ok THEN nextId ELSE NoId
  /\ UNCHANGED <<kubeVars, req, obj, fresh, marked, input, ops, dest>>

\* withCustomFields and a second request with the same input; its result is
\* ignored.
FollowUp ==
  /\ pc = "followUp"
  /\ \E ok \in BOOLEAN : UpdateRemote(rid, input, ok)
  /\ pc' = "save"
  /\ UNCHANGED <<kubeVars, req, obj, fresh, marked, rid, input, ops, dest>>

UpdateStream ==
  /\ pc = "write"
  /\ rid # NoId
  /\ \E ok \in BOOLEAN :
       /\ UpdateRemote(rid, input, ok)
       /\ pc' = IF ok THEN "save" ELSE "fail"
  /\ UNCHANGED <<kubeVars, req, obj, fresh, marked, rid, input, ops, dest>>

\* Mutant: an id that is recorded stays.
RecordedOnce(o) ==
  [o EXCEPT !.id = IF @ = NoId THEN rid ELSE @, !.incoming = input.incoming, !.forwarding = input.port]

\* The status written at the end of createOrUpdateStream.
Recorded(o) == [o EXCEPT !.id = rid, !.incoming = input.incoming, !.forwarding = input.port]

SaveStatus ==
  /\ pc = "save"
  /\ \E ok \in BOOLEAN :
       /\ StatusWrite(Recorded(Cached), TRUE, ok)
       /\ pc' = IF ok THEN "ready" ELSE "fail"
  /\ UNCHANGED <<cache, queue, req, marked, rid, input, remoteVars, ops, dest>>

createOrUpdateStream ==
  FindStreamByID \/ PrepareInput \/ CreateStream \/ FollowUp \/ UpdateStream \/ SaveStatus

Reconcile ==
  \/ createOrUpdateStream
  \/ /\ \/ EnsureFinalizer(Encoded(api[req]))
        \/ MarkReconciling(TRUE)
        \/ InitNginxPMClient(obj.id # NoId)
        \/ DeleteRemote
        \/ DropFinalizer(Encoded(api[req]))
        \/ MarkReady(TRUE)
        \/ MarkError(TRUE)
        \/ Return
     /\ UNCHANGED dest
-----------------------------------------------------------------------------
\* Mutant: a change of the destination queues nothing.
DestinationChangeUnwatched(k) ==
  /\ Op("destination")
  /\ dest' = [dest EXCEPT ![k] = CHOOSE d \in Destinations \cup {NoDest} : d # dest[k]]
  /\ UNCHANGED <<kubeVars, helperVars, localVars, remoteVars>>

\* A Service changes, or a pod of it starts: findObjectsForMap and
\* findStreamsForPod queue the streams that forward to it.
DestinationChange(k) ==
  /\ Op("destination")
  /\ \E d \in Destinations \cup {NoDest} : d # dest[k] /\ dest' = [dest EXCEPT ![k] = d]
  /\ queue' = IF cache[k] # NoObj THEN queue \cup {k} ELSE queue
  /\ UNCHANGED <<api, cache, watch, helperVars, localVars, remoteVars>>

Environment ==
  \/ \E k \in Keys : DestinationChange(k)
  \/ /\ \/ \E k \in Keys :
             \/ \E s \in Specs : UserCreate(k, NewStream(s)) \/ UserEdit(k, s)
             \/ UserDelete(k)
             \/ Trigger(k)
        \/ \E i \in Ids : AdminRemove(i)
        \/ Crash
     /\ UNCHANGED dest

Init == FrameInit /\ dest \in [Keys -> Destinations]

Next ==
  \/ \E k \in Keys : (Dequeue(k) \/ WatchEvent(k)) /\ UNCHANGED dest
  \/ Reconcile
  \/ Environment

Spec == Init /\ [][Next]_streamVars

(* As for the other kinds: the worker runs, watch events arrive, the queue  *)
(* is first in, first out.                                                  *)
FairSpec ==
  /\ Spec
  /\ WF_streamVars(Reconcile)
  /\ \A k \in Keys : WF_streamVars(WatchEvent(k) /\ UNCHANGED dest)
                     /\ SF_streamVars(Dequeue(k) /\ UNCHANGED dest)
-----------------------------------------------------------------------------
\* Every stored, cached or delivered object is a Stream and the worker's
\* variables have the types of the Go variables they stand for.
TypeOK ==
  /\ FrameTypeOK(Stream, Bodies, Bodies, PCs)
  /\ dest \in [Keys -> Destinations \cup {NoDest}]

\* What the reconciler promises about streams in NPM: see RemoteLedger.
Ledger ==
  INSTANCE RemoteLedger WITH
    Nobody <- NoKey,
    MayDisown <- FALSE,
    present <- {k \in Keys : Live(k)},
    leaving <- {k \in Keys : Live(k) /\ api[k].deleting},
    held <- [k \in Keys |-> IF Live(k) THEN api[k].id ELSE NoId],
    alive <- {i \in Ids : Alive(i)},
    owner <- maker,
    turns <- ops

ImplementsLedger == Ledger!Spec

\* NPM has the stream as the spec and the cluster have it now, load balancing
\* included, and the status names the ports in use.
Served(k) ==
  LET o == api[k]
  IN  /\ Live(k)
      /\ ~o.deleting
      /\ dest[k] # NoDest
      /\ o.id # NoId
      /\ Alive(o.id) => remote[o.id] = RequestInput(o, dest[k], UnscopedSupported)
      /\ o.incoming = (IF o.spec.overwrite THEN dest[k].port ELSE o.spec.incoming)
      /\ o.forwarding = dest[k].port

\* When nothing is left to do, every stream whose destination is known is
\* served.  The upstream block is not part of the creation: it arrives with the
\* reconciliation that the creation's own status write causes.
QuietMeansServed ==
  Quiet => \A k \in Keys : Live(k) => Served(k)

\* A stream whose destination stays known is served in the end and for good.
StaysServed ==
  \A k \in Keys :
    (<>[](Live(k) /\ ~api[k].deleting /\ dest[k] # NoDest)) /\ ([]<>(k \in queue))
      => <>[](Served(k) /\ Alive(api[k].id))
===============================================================================
