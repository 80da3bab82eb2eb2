------------------------ MODULE CallbackRegistryProofs -------------------------
(***************************************************************************)
(* Proofs about the callback registry, for any number of owners, invoking  *)
(* threads and registrations.                                              *)
(***************************************************************************)
EXTENDS CallbackRegistry, TLAPS

\* NoId is no id, although both live in the same sets (an empty handle has no id to erase).
LEMMA NoIdIsNoId == NoId \notin Ids
BY RegistryAssumption DEF Ids

\* The shape of the state is preserved by every step.
THEOREM TypeCorrect == Spec => []TypeOK
<1>1. Init => TypeOK
  <2> SUFFICES ASSUME Init PROVE TypeOK
    OBVIOUS
  <2> USE RegistryAssumption DEF Init, MaybeId, Ids
  <2>1. nextId \in 1..(MaxId + 1)
    OBVIOUS
  <2>2. handle \in [Owners -> MaybeId] /\ replaced \in [Owners -> MaybeId]
    OBVIOUS
  <2>3. todo \in [Invokers -> SUBSET Ids] /\ calling \in [Invokers -> MaybeId]
    OBVIOUS
  <2>4. QED
    BY <2>1, <2>2, <2>3 DEF TypeOK
<1>2. TypeOK /\ [Next]_registryVars => TypeOK'
  <2> SUFFICES ASSUME TypeOK, [Next]_registryVars PROVE TypeOK'
    OBVIOUS
  <2> USE RegistryAssumption DEF TypeOK, MaybeId, Ids
  <2>1. ASSUME NEW o \in Owners, Register(o) PROVE TypeOK'
    BY <2>1 DEF Register
  <2>2. ASSUME NEW o \in Owners, DestroyReplaced(o) PROVE TypeOK'
    BY <2>2 DEF DestroyReplaced
  <2>3. ASSUME NEW o \in Owners, Unregister(o) PROVE TypeOK'
    BY <2>3 DEF Unregister
  <2>4. CASE Clear
    BY <2>4 DEF Clear
  <2>5. ASSUME NEW t \in Invokers, InvokeCopy(t) PROVE TypeOK'
    BY <2>5 DEF InvokeCopy
  <2>6. ASSUME NEW t \in Invokers, InvokeCall(t) PROVE TypeOK'
    BY <2>6 DEF InvokeCall
  <2>7. ASSUME NEW t \in Invokers, InvokeReturn(t) PROVE TypeOK'
    BY <2>7 DEF InvokeReturn
  <2>8. CASE UNCHANGED registryVars
    BY <2>8 DEF registryVars
  <2>9. QED
    BY <2>1, <2>2, <2>3, <2>4, <2>5, <2>6, <2>7, <2>8 DEF Next
<1>3. QED
  BY <1>1, <1>2, PTL DEF Spec

-----------------------------------------------------------------------------
\* Ids are never reused: those that handles and tokens hold were given out before, and
\* no two of them are the same registration's.
IdsAreOwned ==
    /\ \A o \in Owners : handle[o] # NoId => handle[o] < nextId
    /\ \A o \in Owners : replaced[o] # NoId => replaced[o] < nextId
    /\ \A o, p \in Owners : o # p /\ handle[o] # NoId => handle[o] # handle[p]
    /\ \A o, p \in Owners : handle[o] # NoId => handle[o] # replaced[p]

RegistryInv == IdsAreOwned /\ NoLeakedCallback

\* A registered callback always has somebody who will unregister it, so destroying the
\* handles empties the registry; and the registrations of two owners never coincide.
THEOREM NoLeakedCallbackCorrect == Spec => [](RegistryInv /\ NoLeakedCallback)
<1>1. Init => RegistryInv
  BY DEF Init, RegistryInv, IdsAreOwned, NoLeakedCallback
<1>2. TypeOK /\ RegistryInv /\ [Next]_registryVars => RegistryInv'
  <2> SUFFICES ASSUME TypeOK, RegistryInv, [Next]_registryVars PROVE RegistryInv'
    OBVIOUS
  <2> USE RegistryAssumption DEF TypeOK, MaybeId, Ids, RegistryInv, IdsAreOwned, NoLeakedCallback
  <2>1. ASSUME NEW o \in Owners, Register(o) PROVE RegistryInv'
    <3>1. IdsAreOwned'
      BY <2>1 DEF Register
    <3>2. NoLeakedCallback'
      BY <2>1 DEF Register
    <3>3. QED
      BY <3>1, <3>2
  <2>2. ASSUME NEW o \in Owners, DestroyReplaced(o) PROVE RegistryInv'
    BY <2>2 DEF DestroyReplaced
  <2>3. ASSUME NEW o \in Owners, Unregister(o) PROVE RegistryInv'
    BY <2>3 DEF Unregister
  <2>4. CASE Clear
    BY <2>4 DEF Clear
  <2>5. ASSUME NEW t \in Invokers, InvokeCopy(t) \/ InvokeCall(t) \/ InvokeReturn(t)
        PROVE  RegistryInv'
    BY <2>5 DEF InvokeCopy, InvokeCall, InvokeReturn
  <2>6. CASE UNCHANGED registryVars
    BY <2>6 DEF registryVars
  <2>7. QED
    BY <2>1, <2>2, <2>3, <2>4, <2>5, <2>6 DEF Next
<1>3. QED
  BY <1>1, <1>2, TypeCorrect, PTL DEF Spec, RegistryInv

\* No owner's registration is taken away by another's late unregistration.
THEOREM OwnRegistrationStandsCorrect == Spec => OwnRegistrationStands
<1>1. TypeOK /\ RegistryInv /\ [Next]_registryVars
      => [\A o \in Owners :
             handle[o] \in callbacks /\ handle'[o] = handle[o]
                 => handle[o] \in callbacks' \/ Clear]_registryVars
  <2> SUFFICES ASSUME TypeOK, RegistryInv, [Next]_registryVars, ~Clear, NEW o \in Owners,
                      handle[o] \in callbacks, handle'[o] = handle[o]
               PROVE  handle[o] \in callbacks'
    OBVIOUS
  <2> USE RegistryAssumption DEF TypeOK, MaybeId, Ids, RegistryInv, IdsAreOwned
  <2>1. ASSUME NEW p \in Owners, Register(p) PROVE handle[o] \in callbacks'
    BY <2>1 DEF Register
  <2>2. ASSUME NEW p \in Owners, DestroyReplaced(p) PROVE handle[o] \in callbacks'
    BY <2>2 DEF DestroyReplaced
  <2>3. ASSUME NEW p \in Owners, Unregister(p) PROVE handle[o] \in callbacks'
    <3>1. handle[o] # NoId
      BY NoIdIsNoId DEF Ids
    <3>2. p # o
      BY <2>3, <3>1 DEF Unregister
    <3>3. handle[p] # handle[o]
      BY <3>1, <3>2
    <3>4. QED
      BY <2>3, <3>3 DEF Unregister
  <2>4. ASSUME NEW t \in Invokers, InvokeCopy(t) \/ InvokeCall(t) \/ InvokeReturn(t)
        PROVE  handle[o] \in callbacks'
    BY <2>4 DEF InvokeCopy, InvokeCall, InvokeReturn
  <2>5. CASE UNCHANGED registryVars
    BY <2>5 DEF registryVars
  <2>6. QED
    BY <2>1, <2>2, <2>3, <2>4, <2>5 DEF Next
<1>2. QED
  BY <1>1, TypeCorrect, NoLeakedCallbackCorrect, PTL DEF Spec, OwnRegistrationStands
=============================================================================
