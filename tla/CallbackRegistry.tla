--------------------------- MODULE CallbackRegistry ----------------------------
(***************************************************************************)
(* CallbackRegistry<TArgs> and the CallbackHandle that owns a registration *)
(* (CallbackRegistry.h, CallbackHandle.h).                                 *)
(*                                                                         *)
(* Owners keep a CallbackHandle each; invokers are the threads that call   *)
(* Invoke.  Every critical section of m_mutex is one step, because nothing *)
(* is called while it is held: Invoke copies the callbacks under the mutex *)
(* and calls the copies after it has released it.                          *)
(***************************************************************************)
EXTENDS Naturals, FiniteSets

CONSTANTS Owners,   \* who keeps a CallbackHandle
          Invokers, \* threads that call Invoke
          MaxId,    \* bound: number of registrations
          NoId      \* an empty handle, or no callback

Ids == 1..MaxId

ASSUME RegistryAssumption == MaxId \in Nat /\ NoId \notin Nat

VARIABLES
    callbacks, \* the keys of m_callbacks
    nextId,    \* m_nextId
    handle,    \* the id each owner's handle will unregister, NoId when not valid
    replaced,  \* the id of a token that a move assignment is about to destroy
    todo,      \* the copies an Invoke has still to call
    calling    \* the copy it is calling

registryVars == << callbacks, nextId, handle, replaced, todo, calling >>

NotInvoking(t) == todo[t] = {} /\ calling[t] = NoId

Init ==
    /\ callbacks = {}
    /\ nextId = 1
    /\ handle = [o \in Owners |-> NoId]
    /\ replaced = [o \in Owners |-> NoId]
    /\ todo = [t \in Invokers |-> {}]
    /\ calling = [t \in Invokers |-> NoId]
-----------------------------------------------------------------------------
\* Mutant: the id is the number of callbacks, so an id comes back after an erase.
RegisterReusing(o) ==
    /\ replaced[o] = NoId
    /\ nextId \in Ids
    /\ callbacks' = callbacks \cup {Cardinality(callbacks) + 1}
    /\ nextId' = nextId + 1
    /\ handle' = [handle EXCEPT ![o] = Cardinality(callbacks) + 1]
    /\ replaced' = [replaced EXCEPT ![o] = handle[o]]
    /\ UNCHANGED << todo, calling >>

\* handle = registry.Register(callback): insertion under the mutex, then the move
\* assignment, which leaves the handle's former token to be destroyed.
Register(o) ==
    /\ replaced[o] = NoId
    /\ nextId \in Ids
    /\ callbacks' = callbacks \cup {nextId}
    /\ nextId' = nextId + 1
    /\ handle' = [handle EXCEPT ![o] = nextId]
    /\ replaced' = [replaced EXCEPT ![o] = handle[o]]
    /\ UNCHANGED << todo, calling >>

\* Mutant: the destroyed token does not unregister.
DestroyReplacedSilent(o) ==
    /\ replaced[o] # NoId
    /\ replaced' = [replaced EXCEPT ![o] = NoId]
    /\ UNCHANGED << callbacks, nextId, handle, todo, calling >>

\* ~UnregisterToken of the token that the assignment replaced.
DestroyReplaced(o) ==
    /\ replaced[o] # NoId
    /\ callbacks' = callbacks \ {replaced[o]}
    /\ replaced' = [replaced EXCEPT ![o] = NoId]
    /\ UNCHANGED << nextId, handle, todo, calling >>

\* CallbackHandle::Unregister, or the handle's destruction; a second time does nothing.
Unregister(o) ==
    /\ replaced[o] = NoId
    /\ callbacks' = callbacks \ {handle[o]}
    /\ handle' = [handle EXCEPT ![o] = NoId]
    /\ UNCHANGED << nextId, replaced, todo, calling >>

Clear ==
    /\ callbacks' = {}
    /\ UNCHANGED << nextId, handle, replaced, todo, calling >>

\* Invoke copies the callbacks; with none there is nothing left to do.
InvokeCopy(t) ==
    /\ NotInvoking(t)
    /\ callbacks # {}
    /\ todo' = [todo EXCEPT ![t] = callbacks]
    /\ UNCHANGED << callbacks, nextId, handle, replaced, calling >>

\* The next copy, in the map's unspecified order, is called without the mutex.
InvokeCall(t) ==
    /\ calling[t] = NoId
    /\ \E i \in todo[t] :
          /\ calling' = [calling EXCEPT ![t] = i]
          /\ todo' = [todo EXCEPT ![t] = @ \ {i}]
    /\ UNCHANGED << callbacks, nextId, handle, replaced >>

InvokeReturn(t) ==
    /\ calling[t] # NoId
    /\ calling' = [calling EXCEPT ![t] = NoId]
    /\ UNCHANGED << callbacks, nextId, handle, replaced, todo >>

Next ==
    \/ \E o \in Owners : Register(o) \/ DestroyReplaced(o) \/ Unregister(o)
    \/ Clear
    \/ \E t \in Invokers : InvokeCopy(t) \/ InvokeCall(t) \/ InvokeReturn(t)

Spec == Init /\ [][Next]_registryVars
-----------------------------------------------------------------------------
MaybeId == Ids \cup {NoId}

\* The shape of the state: ids are never NoId and the counter stays ahead of them.
TypeOK ==
    /\ callbacks \subseteq Ids
    /\ nextId \in 1..(MaxId + 1)
    /\ handle \in [Owners -> MaybeId]
    /\ replaced \in [Owners -> MaybeId]
    /\ todo \in [Invokers -> SUBSET Ids]
    /\ calling \in [Invokers -> MaybeId]

\* "Callback will be automatically unregistered when handle is destroyed"
\* (CallbackRegistry.h:34): a callback stays registered only as long as some handle,
\* or a token about to be destroyed by an assignment, will unregister it.
NoLeakedCallback ==
    \A i \in callbacks : \E o \in Owners : i \in {handle[o], replaced[o]}

\* An owner's registration goes only by its own hand or by Clear: no other owner's
\* unregistration, however late, takes it away.
OwnRegistrationStands ==
    [][\A o \in Owners :
          handle[o] \in callbacks /\ handle'[o] = handle[o]
              => handle[o] \in callbacks' \/ Clear]_registryVars

\* "Guarantees callbacks won't be invoked after being unregistered"
\* (CallbackRegistry.h:13): what an Invoke calls is registered when it is called.
NotInvokedAfterUnregister ==
    [][\A t \in Invokers :
          calling[t] = NoId /\ calling'[t] # NoId => calling'[t] \in callbacks]_registryVars
=============================================================================
