-------------------------------- MODULE Sync --------------------------------
(***************************************************************************)
(* fes::sync (include/sync.h), the list of subscribers that every channel  *)
(* of the library dispatches through, with the two classes that undo a     *)
(* subscription: internal_connection, owned by the sync, and connection,   *)
(* the guard a client keeps.                                               *)
(*                                                                         *)
(* A sync belongs to one thread.  The difficulty is re-entrancy: while     *)
(* operator() walks the list, the subscriber it has called may connect,    *)
(* disconnect, publish again or throw.  A subscriber is named by its       *)
(* registration number; that is also the name of its list node, of the     *)
(* iterator in its deleter and of its internal_connection.                 *)
(***************************************************************************)
EXTENDS Integers, FiniteSets, Sequences

CONSTANTS
    Guards,         \* the connection objects of the clients
    Reassign,       \* may a guard that holds a connection be assigned another?
    MaxHandlers,    \* bound: subscriptions made
    MaxDepth        \* bound: nested publications

ASSUME GuardsAssumption == IsFiniteSet(Guards) /\ Reassign \in BOOLEAN
ASSUME BoundsAssumption == MaxHandlers \in Nat /\ MaxDepth \in Nat

VARIABLES
    alive,          \* the sync has not been destroyed
    registered,     \* _registered
    created,        \* subscriptions made so far
    connected,      \* the internal_connections whose _connected is true
    guard,          \* the connection each guard refers to, or None
    stack,          \* the calls of operator() under way, the innermost last
    undefined,      \* the program has done something undefined
    held,           \* history: connections that a guard has referred to
    cutRunning      \* history: a subscriber was disconnected while it ran

vars == <<alive, registered, created, connected, guard, stack, undefined, held, cutRunning>>

None == 0
Handlers == 1..MaxHandlers
Members == {registered[i] : i \in DOMAIN registered}
\* A call of operator(): the node its iterator is at, and whom it has called.
Frames == [at : Handlers, called : Seq(Handlers)]
Running == {stack[k].at : k \in DOMAIN stack}
Top == stack[Len(stack)]

Init ==
    /\ alive = TRUE
    /\ registered = <<>>
    /\ created = 0
    /\ connected = {}
    /\ guard = [g \in Guards |-> None]
    /\ stack = <<>>
    /\ undefined = FALSE
    /\ held = {}
    /\ cutRunning = FALSE

-----------------------------------------------------------------------------
(* connect and disconnect *)

\* Mutant: a new subscriber goes to the front of the list.
ConnectFront ==
    /\ ~undefined /\ alive
    /\ created < MaxHandlers
    /\ created' = created + 1
    /\ registered' = <<created'>> \o registered
    /\ connected' = connected \cup {created'}
    /\ UNCHANGED <<alive, guard, stack, undefined, held, cutRunning>>

\* connect: a node at the end of the list and an internal_connection that _conns
\* owns.  The caller gets a weak reference.
Connect ==
    /\ ~undefined /\ alive
    /\ created < MaxHandlers
    /\ created' = created + 1
    /\ registered' = Append(registered, created')
    /\ connected' = connected \cup {created'}
    /\ UNCHANGED <<alive, guard, stack, undefined, held, cutRunning>>

\* std::list::erase of the node of h.
Erase(s, h) ==
    LET i == CHOOSE j \in DOMAIN s : s[j] = h
    IN  [j \in 1..(Len(s) - 1) |-> s[IF j < i THEN j ELSE j + 1]]

\* Mutant: the flag is not reset.
CutKeepsFlag(h) ==
    \/ /\ h \in connected
       /\ registered' = IF h \in Members THEN Erase(registered, h) ELSE registered
       /\ undefined' = (h \notin Members)
       /\ cutRunning' = (cutRunning \/ h \in Running)
       /\ UNCHANGED connected
    \/ /\ h \notin connected
       /\ UNCHANGED <<registered, connected, undefined, cutRunning>>

\* internal_connection::disconnect: erases the node if the flag is set, and
\* resets the flag.  Erasing a node that is not in the list is undefined.
Cut(h) ==
    \/ /\ h \in connected
       /\ registered' = IF h \in Members THEN Erase(registered, h) ELSE registered
       /\ undefined' = (h \notin Members)
       /\ connected' = connected \ {h}
       /\ cutRunning' = (cutRunning \/ h \in Running)
    \/ /\ h \notin connected
       /\ UNCHANGED <<registered, connected, undefined, cutRunning>>

\* A client locks the weak reference that connect returned and disconnects.
Disconnect(h) ==
    /\ ~undefined /\ alive
    /\ h <= created
    /\ Cut(h)
    /\ UNCHANGED <<alive, created, guard, stack, held>>

-----------------------------------------------------------------------------
(* connection *)

CanAssign(g) == guard[g] = None \/ Reassign

\* connection(weak) and operator=(weak): the former reference is overwritten.
Hold(g, h) ==
    /\ ~undefined
    /\ CanAssign(g)
    /\ h <= created
    /\ guard' = [guard EXCEPT ![g] = h]
    /\ held' = held \cup {h}
    /\ UNCHANGED <<alive, registered, created, connected, stack, undefined, cutRunning>>

\* connection(connection&&) and operator=(connection&&).
Move(from, to) ==
    /\ ~undefined
    /\ from # to /\ guard[from] # None
    /\ CanAssign(to)
    /\ guard' = [guard EXCEPT ![to] = guard[from], ![from] = None]
    /\ UNCHANGED <<alive, registered, created, connected, stack, undefined, held, cutRunning>>

\* Mutant: the guard owns the connection, which then outlives the sync.
ReleaseOwning(g) ==
    /\ ~undefined
    /\ guard[g] # None
    /\ guard' = [guard EXCEPT ![g] = None]
    /\ Cut(guard[g])
    /\ UNCHANGED <<alive, created, stack, held>>

\* Mutant: the destructor does nothing.
ReleaseForgets(g) ==
    /\ ~undefined
    /\ guard[g] # None
    /\ guard' = [guard EXCEPT ![g] = None]
    /\ UNCHANGED <<alive, registered, created, connected, stack, undefined, held, cutRunning>>

\* ~connection: disconnects if the sync, which owns the connection, still lives.
Release(g) ==
    /\ ~undefined
    /\ guard[g] # None
    /\ guard' = [guard EXCEPT ![g] = None]
    /\ \/ alive /\ Cut(guard[g])
       \/ ~alive /\ UNCHANGED <<registered, connected, undefined, cutRunning>>
    /\ UNCHANGED <<alive, created, stack, held>>

\* The sync is destroyed (not from one of its own subscribers): _conns goes
\* first, and with it the connections, then _registered.
Destroy ==
    /\ ~undefined /\ alive
    /\ stack = <<>>
    /\ alive' = FALSE
    /\ registered' = <<>>
    /\ UNCHANGED <<created, connected, guard, stack, undefined, held, cutRunning>>

-----------------------------------------------------------------------------
(* operator() *)

\* A client or a subscriber publishes: the first subscriber is called.  With no
\* subscriber nothing happens.
Publish ==
    /\ ~undefined /\ alive
    /\ Len(stack) < MaxDepth
    /\ registered # <<>>
    /\ stack' = Append(stack, [at |-> Head(registered), called |-> <<Head(registered)>>])
    /\ UNCHANGED <<alive, registered, created, connected, guard, undefined, held, cutRunning>>

Pop(s) == SubSeq(s, 1, Len(s) - 1)

\* Mutant: the end of the list is computed once, before the first call, so that
\* the loop ends at what was the last node then.
AdvanceStopsEarly ==
    /\ ~undefined /\ stack # <<>>
    /\ \E i \in DOMAIN registered :
          /\ registered[i] = Top.at
          /\ \/ /\ i < Len(registered) - 1
                /\ stack' = [stack EXCEPT ![Len(stack)] =
                      [at |-> registered[i + 1], called |-> Append(@.called, registered[i + 1])]]
             \/ /\ i >= Len(registered) - 1
                /\ stack' = Pop(stack)
    /\ UNCHANGED <<alive, registered, created, connected, guard, undefined, held, cutRunning>>

\* The subscriber returns, ++it: the next one is called, or the loop ends.
Advance ==
    /\ ~undefined /\ stack # <<>>
    /\ \E i \in DOMAIN registered :
          /\ registered[i] = Top.at
          /\ \/ /\ i < Len(registered)
                /\ stack' = [stack EXCEPT ![Len(stack)] =
                      [at |-> registered[i + 1], called |-> Append(@.called, registered[i + 1])]]
             \/ /\ i = Len(registered)
                /\ stack' = Pop(stack)
    /\ UNCHANGED <<alive, registered, created, connected, guard, undefined, held, cutRunning>>

\* The node the iterator is at has been erased: ++it reads freed memory.
AdvanceDangling ==
    /\ ~undefined /\ stack # <<>>
    /\ Top.at \notin Members
    /\ undefined' = TRUE
    /\ UNCHANGED <<alive, registered, created, connected, guard, stack, held, cutRunning>>

\* A subscriber throws: the rest of the list is not called.
Throw ==
    /\ ~undefined /\ stack # <<>>
    /\ stack' = Pop(stack)
    /\ UNCHANGED <<alive, registered, created, connected, guard, undefined, held, cutRunning>>

-----------------------------------------------------------------------------
Next ==
    \/ Connect \/ Destroy \/ Publish \/ Advance \/ AdvanceDangling \/ Throw
    \/ \E h \in Handlers : Disconnect(h)
    \/ \E g \in Guards :
          \/ Release(g)
          \/ \E h \in Handlers : Hold(g, h)
          \/ \E to \in Guards : Move(g, to)

SafeSpec == Init /\ [][Next]_vars

-----------------------------------------------------------------------------
(* Properties *)

\* The range of every variable.
TypeOK ==
    /\ alive \in BOOLEAN
    /\ registered \in Seq(Handlers)
    /\ created \in 0..MaxHandlers
    /\ connected \subseteq 1..created
    /\ guard \in [Guards -> 0..created]
    /\ stack \in Seq(Frames)
    /\ undefined \in BOOLEAN
    /\ held \subseteq 1..created
    /\ cutRunning \in BOOLEAN

\* The flag of an internal_connection tells whether its node is in the list, for
\* as long as the sync lives: so disconnecting again, directly or through a
\* second guard, erases nothing.
FlagTellsMembership ==
    alive => \A h \in 1..created : h \in connected <=> h \in Members

\* Undefined behaviour has one cause: the client disconnected a subscriber that
\* was being called.  No node is erased twice, none is erased after the sync is
\* destroyed, and no iterator of operator() is left behind in any other way.
OneWayToUndefined == undefined => cutRunning

\* operator() calls the subscribers in the order in which they connected, each
\* at most once, although the list changes under its iterator.
CallsInOrder == \A k \in DOMAIN stack :
    \A i, j \in DOMAIN stack[k].called : i < j => stack[k].called[i] < stack[k].called[j]

\* "all functors connected will receive this" (README): when operator() comes to
\* its end, every subscriber of the list has been called, those connected while
\* it ran included.
EverybodyCalled == [][
    (Advance /\ Len(stack') < Len(stack)) =>
        \A h \in Members : \E i \in DOMAIN Top.called : Top.called[i] = h]_vars

\* A subscriber that was under a guard is not in the list once no guard refers
\* to it any more ("kill only if autodisconnection failed", tests/test_sync.cpp).
AutoDisconnect == \A h \in held :
    (\A g \in Guards : guard[g] # h) => h \notin Members
==============================================================================
