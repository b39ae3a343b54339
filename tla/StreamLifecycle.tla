---------------------------- MODULE StreamLifecycle ----------------------------
(***************************************************************************)
(* What the stream manager promises its caller, whatever connections,      *)
(* retries, cancellations and timeouts lie behind it: a stream is off,     *)
(* active, or being stopped (one at a time); only a stream that is not off *)
(* holds a connection; a stop ends, with the connection given back; and    *)
(* the service is closed for good once every stream is off.                *)
(***************************************************************************)
CONSTANT Streams

VARIABLES status,    \* of each stream
          attached,  \* the stream holds an open connection
          service    \* "open", or "closed" after the shutdown

vars == <<status, attached, service>>

Init == /\ status = [s \in Streams |-> "off"]
        /\ attached = [s \in Streams |-> FALSE]
        /\ service = "open"

Start(s) == /\ service = "open" /\ status[s] = "off"
            /\ status' = [status EXCEPT ![s] = "active"]
            /\ UNCHANGED <<attached, service>>

\* A connection attempt succeeds, perhaps after the stop has begun.
Attach(s) == /\ status[s] # "off" /\ ~attached[s]
             /\ attached' = [attached EXCEPT ![s] = TRUE]
             /\ UNCHANGED <<status, service>>

Detach(s) == /\ attached[s]
             /\ attached' = [attached EXCEPT ![s] = FALSE]
             /\ UNCHANGED <<status, service>>

BeginStop(s) == /\ status[s] = "active"
                /\ \A t \in Streams : status[t] # "stopping"
                /\ status' = [status EXCEPT ![s] = "stopping"]
                /\ attached' \in {attached, [attached EXCEPT ![s] = FALSE]}
                /\ UNCHANGED service

EndStop(s) == /\ status[s] = "stopping" /\ ~attached[s]
              /\ status' = [status EXCEPT ![s] = "off"]
              /\ UNCHANGED <<attached, service>>

Close == /\ service = "open"
         /\ \A s \in Streams : status[s] = "off"
         /\ service' = "closed"
         /\ UNCHANGED <<status, attached>>

Next == \/ Close
        \/ \E s \in Streams : \/ Start(s) \/ BeginStop(s) \/ EndStop(s)
                              \/ Attach(s) \/ Detach(s)

SafeSpec == Init /\ [][Next]_vars

\* A stream that is being stopped gives its connection back, and is off in the
\* end even if connections come and go meanwhile.
Spec == /\ SafeSpec
        /\ \A s \in Streams :
             /\ WF_vars(status[s] = "stopping" /\ Detach(s))
             /\ SF_vars(EndStop(s))
==============================================================================
