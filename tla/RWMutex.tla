------------------------------ MODULE RWMutex ------------------------------
(***************************************************************************)
(* sync.RWMutex as the code under src/ uses it.  The state of a mutex is a *)
(* record:                                                                 *)
(*   writer   the goroutines that hold its inner mutex: at most one, which *)
(*            owns the lock or waits for the readers that came before it   *)
(*   readers  the goroutines that hold a read lock                         *)
(*   waiting  the goroutines blocked in RLock behind the writer            *)
(*                                                                         *)
(* A writer that has announced itself blocks new readers, and its Unlock   *)
(* lets in every reader that was blocked before another writer can enter.  *)
(***************************************************************************)
Free == [writer |-> {}, readers |-> {}, waiting |-> {}]

\* Lock, first half: win the inner mutex.
CanAnnounce(m) == m.writer = {}
Announce(m, g) == [m EXCEPT !.writer = {g}]

\* Lock, second half: it returns once the earlier readers are gone.
Owns(m, g) == g \in m.writer /\ m.readers = {}

Unlock(m) == [writer |-> {}, readers |-> m.readers \cup m.waiting, waiting |-> {}]

\* RLock: register; behind a writer the call blocks until that writer unlocks.
RLock(m, g) ==
    IF m.writer = {} THEN [m EXCEPT !.readers = @ \cup {g}]
                     ELSE [m EXCEPT !.waiting = @ \cup {g}]

Reads(m, g) == g \in m.readers

RUnlock(m, g) == [m EXCEPT !.readers = @ \ {g}]

Type(G) == [writer : SUBSET G, readers : SUBSET G, waiting : SUBSET G]
=============================================================================
