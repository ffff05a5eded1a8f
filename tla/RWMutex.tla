------------------------------- MODULE RWMutex -------------------------------
(***************************************************************************)
(* sync.RWMutex of the Go library, as a value.  readers hold the read lock, *)
(* writer is the one goroutine that has announced itself by Lock, if any:  *)
(* it holds the lock when the last reader has gone.  Readers that come     *)
(* after the announcement are parked, and let in by Unlock, before the     *)
(* next writer.  So a goroutine that takes the read lock twice waits for   *)
(* itself if a writer announces itself in between.                         *)
(***************************************************************************)
Unlocked == [readers |-> {}, parked |-> {}, writer |-> {}]

RWMutexes(Goroutines) ==
  [readers : SUBSET Goroutines, parked : SUBSET Goroutines, writer : SUBSET Goroutines]

RLock(mu, g) ==
  IF mu.writer = {} THEN [mu EXCEPT !.readers = @ \cup {g}]
  ELSE [mu EXCEPT !.parked = @ \cup {g}]

Reads(mu, g) == g \in mu.readers

RUnlock(mu, g) == [mu EXCEPT !.readers = @ \ {g}]

\* Lock begins when no other writer is announced.
MayLock(mu) == mu.writer = {}

Lock(mu, g) == [mu EXCEPT !.writer = {g}]

Writes(mu, g) == g \in mu.writer /\ mu.readers = {}

Unlock(mu) == [readers |-> mu.parked, parked |-> {}, writer |-> {}]
=============================================================================
