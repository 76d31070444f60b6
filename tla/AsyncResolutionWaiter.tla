------------------------ MODULE AsyncResolutionWaiter ------------------------
(***************************************************************************)
(* AsyncResolutionWaiter: the asyncio.Event objects that connect the       *)
(* requests of an ERS instance with the doorbells for their mentions.      *)
(*                                                                         *)
(* Each instance keeps one event per mention in a WeakValueDictionary; an  *)
(* event is in the dictionary as long as something refers to it: a request *)
(* that holds it in a local variable, or the task of an abandoned wait.    *)
(* The wait is shielded, so a timeout or a cancellation leaves its task    *)
(* and the event in a reference cycle, until the cyclic collector runs.    *)
(***************************************************************************)
CONSTANTS
  Requests,    \* resolve requests
  InstanceOf,  \* the ERS instance that serves a request
  KeyOf        \* the mention of a request

VARIABLES
  holding,    \* requests that hold the event of their mention
  lingering,  \* events that the task of an abandoned wait refers to
  rung        \* events that are set

waiterVars == <<holding, lingering, rung>>

\* The event of a mention on an instance.
Event(r) == <<InstanceOf[r], KeyOf[r]>>

Events == {InstanceOf[r] : r \in Requests} \X {KeyOf[r] : r \in Requests}

\* The dictionary has an entry.
Live(e) == e \in lingering \/ \E r \in holding : Event(r) = e

WaiterInit == holding = {} /\ lingering = {} /\ rung = {}

WaiterTypeOK == holding \subseteq Requests /\ lingering \subseteq Events /\ rung \subseteq Events

\* The references to events become h and l; events without one are gone.
Refer(h, l) ==
  /\ holding' = h
  /\ lingering' = l
  /\ rung' = rung \intersect (l \union {Event(r) : r \in h})

\* get_or_create by a request that keeps the event.
GetOrCreate(r) == Refer(holding \union {r}, lingering)

\* notify: sets the event if there is one; its result is Live.
Notify(e) ==
  /\ rung' = IF Live(e) THEN rung \union {e} ELSE rung
  /\ UNCHANGED <<holding, lingering>>

\* The wait ends without the event: the request keeps the event for now.
Abandon(r) == Refer(holding, lingering \union {Event(r)})

\* A set of requests end, some of them while they wait.
Release(ended, waiting) ==
  Refer(holding \ ended, lingering \union {Event(r) : r \in ended \intersect waiting})

\* The task of an abandoned wait has finished, or is collected.
Collect(e) == e \in lingering /\ Refer(holding, lingering \ {e})
=============================================================================
