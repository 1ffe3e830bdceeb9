----------------------------- MODULE LeaseProofs -----------------------------
(* What holds of leases for any workers, outsiders, clocks and times to live, *)
(* any number of attempts, calls and epochs, and under every fault of Lease.  *)
EXTENDS Lease, TLAPS

(***************************************************************************)
(* The inductive invariant                                                 *)
(*                                                                         *)
(* Its parts are about values: a handle, a call or a put in flight, beside *)
(* the document d and the time t.  What the others do to the document and  *)
(* the clock then touches them in one lemma (Monotone).                    *)
(***************************************************************************)
Calls == [op : Ops \cup {"none", "acquire"}, phase : {"none", "clock", "get", "put"},
          try : Nat, time : Nat, seen : Documents \cup {NoDoc}]
Flights == [op : Ops \cup {"acquire"}, match : Documents \cup {NoDoc}, new : Documents]
Visits == [phase : {"new", "get", "put", "done"}, try : 0..UpdateAttempts,
           seen : Documents \cup {NoDoc}]

Types ==
  /\ now \in 0..MaxTime /\ calls \in 0..MaxCalls
  /\ doc \in Documents \cup {NoDoc}
  /\ lease \in [Worker -> Handles \cup {NoLease}]
  /\ call \in [Worker -> Calls]
  /\ flying \in [Worker -> Flights \cup {NoPut}]
  /\ coop \in [Outsider -> Visits]

(* What one put may make of the document that it replaces: the epoch goes up, *)
(* or the holder stays or leaves; it adds a write of a period only within     *)
(* that period; and it starts a new one only if the document had expired for  *)
(* some clock.                                                                *)
Fenced(d, new) ==
  d # NoDoc =>
    /\ new.epoch >= d.epoch
    /\ new.epoch = d.epoch => new.holder \in {d.holder, NoHolder}

Living(d, new) ==
  \A w \in Worker, e \in 1..MaxEpoch :
    Mine(w, e) \in StateOf(new) \ StateOf(d) =>
      /\ new.epoch = e
      /\ d # NoDoc /\ d.epoch = e => d.holder = HolderOf[w]

Due(d, t) == d = NoDoc \/ d.holder = NoHolder \/ d.deadline <= t + MaxOffset

Lawful(d, new, t) ==
  /\ new \in Documents
  /\ Fenced(d, new) /\ Living(d, new)
  /\ d # NoDoc /\ new.epoch > d.epoch => Due(d, t)

(* d is the document, or one that it replaced. *)
Past(seen, d) == seen = NoDoc \/ (d # NoDoc /\ seen.epoch <= d.epoch)

(* A handle and its etag agree; an open handle is its worker's.              *)
Tracks(w, l, d, t) ==
  l # NoLease =>
    /\ l.etag.epoch = l.epoch /\ l.etag.holder = l.holder /\ l.etag.state = l.state
    /\ Past(l.etag, d)
    /\ ~l.released => l.holder = HolderOf[w]
    /\ l.origin = "acquire" => l.deadline <= t + Offset[w] + Ttl

(* A call is at a stage of its operation, and its times are behind the clock. *)
Called(w, c, l, d, t) ==
  /\ c.op = "none" => c = NoCall
  /\ c.op \in Ops =>
       /\ l # NoLease /\ ~l.released
       /\ c.phase \in {"get", "put"} /\ c.try \in 1..PutAttempts
       /\ c.op \in {"write", "update"} => c.time = l.deadline
       /\ c.op = "renew" /\ l.origin = "acquire" => l.deadline <= c.time
       /\ c.op = "renew" => c.time <= t + Offset[w] + Ttl
       /\ c.op \in {"release", "finish"} => c.time <= t + Offset[w]
  /\ c.op = "acquire" =>
       /\ c.phase \in {"clock", "get", "put"} /\ c.try \in 1..AcquireAttempts
       /\ c.time <= t + Offset[w]
       /\ c.phase = "put" => Past(c.seen, d) /\ Due(c.seen, t)

(* A put that may still land keeps to the rules of those that were answered. *)
Flies(f, d, t) ==
  f # NoPut =>
    /\ Lawful(f.match, f.new, t) /\ Past(f.match, d)
    /\ f.op \notin {"write", "finish"} => StateOf(f.match) \subseteq StateOf(f.new)

Visited(v) ==
  /\ v.phase = "new" => v.try = 0
  /\ v.phase = "get" => v.try < UpdateAttempts
  /\ v.phase = "put" => v.seen # NoDoc

Sound(w) ==
  /\ Tracks(w, lease[w], doc, now)
  /\ Called(w, call[w], lease[w], doc, now)
  /\ Flies(flying[w], doc, now)

Inv == Types /\ (\A w \in Worker : Sound(w)) /\ (\A o \in Outsider : Visited(coop[o]))

(* As long as workers do not share a holder, a period that was acquired is   *)
(* its worker's alone, and the document's deadline is not before the handle's. *)
HoldersApart ==
  \A v, w \in Worker : v # w /\ HolderOf[v] = HolderOf[w] => HolderOf[v] = NoHolder

Open(w) == lease[w] # NoLease /\ ~lease[w].released
Owns(w) == Open(w) /\ lease[w].origin = "acquire"
Stays(f) == f # NoPut /\ f.match # NoDoc /\ f.new.epoch = f.match.epoch

Alone(w) ==
  Owns(w) =>
    /\ \A v \in Worker \ {w} : Open(v) => lease[v].epoch # lease[w].epoch
    /\ \A v \in Worker : Stays(flying[v]) => flying[v].match.epoch # lease[w].epoch
    /\ doc.epoch = lease[w].epoch =>
         /\ doc.holder \in {HolderOf[w], NoHolder}
         /\ doc.holder # NoHolder => lease[w].deadline <= doc.deadline

PeriodInv == \A w \in Worker : Alone(w)

(***************************************************************************)
(* Constants                                                               *)
(***************************************************************************)
LEMMA Bounds ==
  /\ Ttl \in Nat /\ MaxTime \in Nat /\ MaxEpoch \in Nat /\ MaxCalls \in Nat /\ MaxOffset \in Nat
  /\ AcquireAttempts \in Nat /\ AcquireAttempts >= 1
  /\ PutAttempts \in Nat /\ PutAttempts >= 1
  /\ UpdateAttempts \in Nat /\ UpdateAttempts >= 1
  /\ \A w \in Worker : Offset[w] \in Nat /\ Offset[w] <= MaxOffset
BY LeaseAssumption DEF LeaseAssumption

(* A handle on a document is one, and agrees with it. *)
LEMMA HandleIsOne ==
  ASSUME NEW d \in Documents, NEW origin \in {"acquire", "attach"}
  PROVE /\ HandleOn(d, origin) \in Handles /\ HandleOn(d, origin) # NoLease
        /\ HandleOn(d, origin).epoch = d.epoch /\ HandleOn(d, origin).holder = d.holder
        /\ HandleOn(d, origin).deadline = d.deadline /\ HandleOn(d, origin).state = d.state
        /\ HandleOn(d, origin).etag = d /\ HandleOn(d, origin).released = FALSE
        /\ HandleOn(d, origin).origin = origin
<1>1. HandleOn(d, origin) \in Handles
  BY DEF HandleOn, Handles, Documents
<1> QED BY <1>1, ValuesAssumption DEF ValuesAssumption, HandleOn

(* Time passes and the document moves on: what was sound stays so. *)
LEMMA Monotone ==
  ASSUME NEW w \in Worker, NEW l \in Handles \cup {NoLease}, NEW c \in Calls,
         NEW f \in Flights \cup {NoPut},
         NEW d \in Documents \cup {NoDoc}, NEW new \in Documents \cup {NoDoc},
         NEW t \in Nat, NEW s \in Nat, t <= s,
         d # NoDoc => new # NoDoc /\ new.epoch >= d.epoch
  PROVE /\ Tracks(w, l, d, t) => Tracks(w, l, new, s)
        /\ Called(w, c, l, d, t) => Called(w, c, l, new, s)
        /\ Flies(f, d, t) => Flies(f, new, s)
<1>1. \A x \in Documents : x.epoch \in Nat /\ x.deadline \in Nat
  BY DEF Documents
<1>2. \A x \in Documents \cup {NoDoc} : Past(x, d) => Past(x, new)
  BY <1>1, ValuesAssumption DEF ValuesAssumption, Past
<1>3. \A x \in Documents \cup {NoDoc} : Due(x, t) => Due(x, s)
  BY <1>1, Bounds DEF Due
<1>4. Tracks(w, l, d, t) => Tracks(w, l, new, s)
  <2>1. l # NoLease => l.etag \in Documents /\ l.deadline \in Nat
    BY DEF Handles
  <2> QED BY <2>1, <1>2, Bounds DEF Tracks
<1>5. Called(w, c, l, d, t) => Called(w, c, l, new, s)
  <2>1. c.seen \in Documents \cup {NoDoc} /\ c.time \in Nat
    BY DEF Calls
  <2> QED BY <2>1, <1>2, <1>3, Bounds DEF Called
<1>6. Flies(f, d, t) => Flies(f, new, s)
  <2>1. f # NoPut => f.match \in Documents \cup {NoDoc}
    BY DEF Flights
  <2> QED BY <2>1, <1>2, <1>3 DEF Flies, Lawful
<1> QED BY <1>4, <1>5, <1>6

LEMMA StaysSound ==
  ASSUME Inv, NEW w \in Worker, now' \in Nat, now' >= now, doc' \in Documents \cup {NoDoc},
         doc # NoDoc => doc' # NoDoc /\ doc'.epoch >= doc.epoch
  PROVE /\ Tracks(w, lease[w], doc', now')
        /\ Called(w, call[w], lease[w], doc', now')
        /\ Flies(flying[w], doc', now')
<1>1. /\ lease[w] \in Handles \cup {NoLease} /\ call[w] \in Calls
      /\ flying[w] \in Flights \cup {NoPut}
      /\ doc \in Documents \cup {NoDoc} /\ now \in Nat /\ now <= now'
  BY Bounds DEF Inv, Types
<1>2. /\ Tracks(w, lease[w], doc, now) /\ Called(w, call[w], lease[w], doc, now)
      /\ Flies(flying[w], doc, now)
  BY DEF Inv, Sound
<1> QED BY <1>1, <1>2, Monotone

(* A step of one worker leaves the others sound. *)
LEMMA Framed ==
  ASSUME Inv, Types', NEW w \in Worker, now' >= now,
         doc # NoDoc => doc' # NoDoc /\ doc'.epoch >= doc.epoch,
         \A v \in Worker \ {w} :
           lease'[v] = lease[v] /\ call'[v] = call[v] /\ flying'[v] = flying[v],
         UNCHANGED coop,
         Tracks(w, lease'[w], doc', now'), Called(w, call'[w], lease'[w], doc', now'),
         Flies(flying'[w], doc', now')
  PROVE Inv'
<1>1. now' \in Nat /\ doc' \in Documents \cup {NoDoc}
  BY Bounds DEF Inv, Types
<1>2. ASSUME NEW v \in Worker
      PROVE /\ Tracks(v, lease'[v], doc', now') /\ Called(v, call'[v], lease'[v], doc', now')
            /\ Flies(flying'[v], doc', now')
  <2>1. CASE v = w
    BY <2>1
  <2>2. CASE v # w
    <3>1. /\ Tracks(v, lease[v], doc', now') /\ Called(v, call[v], lease[v], doc', now')
          /\ Flies(flying[v], doc', now')
      BY <1>1, StaysSound
    <3>2. lease'[v] = lease[v] /\ call'[v] = call[v] /\ flying'[v] = flying[v]
      BY <2>2
    <3> QED BY <3>1, <3>2
  <2> QED BY <2>1, <2>2
<1>3. \A v \in Worker : Sound(v)'
  BY <1>2 DEF Sound
<1>4. \A o \in Outsider : Visited(coop[o])'
  BY DEF Inv
<1> QED BY <1>3, <1>4 DEF Inv

(***************************************************************************)
(* What the puts would write                                               *)
(***************************************************************************)
LEMMA AcquiredIsLawful ==
  ASSUME Inv, NEW w \in Worker, At(w, "acquire", "put"), NEW transition \in BOOLEAN,
         NextEpoch(call[w].seen) <= MaxEpoch
  PROVE /\ Lawful(call[w].seen, Acquired(w, transition), now)
        /\ Acquired(w, transition).epoch = NextEpoch(call[w].seen)
        /\ call[w].seen # NoDoc => Acquired(w, transition).epoch = call[w].seen.epoch + 1
        /\ Acquired(w, transition).holder = HolderOf[w]
        /\ Acquired(w, transition).deadline <= Clock(w) + Ttl
        /\ StateOf(call[w].seen) \subseteq Acquired(w, transition).state
<1> DEFINE d == call[w].seen
           new == Acquired(w, transition)
           e == NextEpoch(d)
<1>1. d \in Documents \cup {NoDoc} /\ call[w].time \in Nat
  BY DEF Inv, Types, Calls
<1>2. call[w].time <= now + Offset[w] /\ Due(d, now)
  BY DEF Inv, Sound, Called, At
<1>3. d # NoDoc => d.epoch \in 1..MaxEpoch /\ d.state \subseteq Tokens
  BY <1>1 DEF Documents
<1>4. e \in 1..MaxEpoch /\ (d # NoDoc => e = d.epoch + 1)
  BY <1>3, Bounds DEF NextEpoch
<1>5. Mine(w, e) \in Tokens
  BY <1>4 DEF Mine, Tokens
<1>6. /\ new.epoch = e /\ new.holder = HolderOf[w] /\ new.deadline = call[w].time + Ttl
      /\ new.state = IF transition THEN StateOf(d) \cup {Mine(w, e)} ELSE StateOf(d)
  BY DEF Acquired, Document, StateOf
<1>7. new.state \subseteq Tokens
  BY <1>3, <1>5, <1>6 DEF StateOf
<1>8. new \in Documents
  <2>1. new = [epoch |-> e, holder |-> HolderOf[w], deadline |-> call[w].time + Ttl,
               state |-> new.state]
    BY DEF Acquired, Document
  <2>2. HolderOf[w] \in Holder /\ call[w].time + Ttl \in Nat
    BY <1>1, Bounds DEF Holder
  <2> QED BY <2>1, <2>2, <1>4, <1>7 DEF Documents
<1>9. Fenced(d, new)
  BY <1>3, <1>4, <1>6 DEF Fenced
<1>10. Living(d, new)
  <2> SUFFICES ASSUME NEW v \in Worker, NEW x \in 1..MaxEpoch,
                      Mine(v, x) \in StateOf(new) \ StateOf(d)
               PROVE new.epoch = x /\ (d # NoDoc => d.epoch # x)
    BY DEF Living
  <2>1. StateOf(new) = new.state
    BY <1>8, ValuesAssumption DEF ValuesAssumption, StateOf
  <2>2. Mine(v, x) = Mine(w, e)
    BY <2>1, <1>6
  <2>3. x = e
    BY <2>2 DEF Mine
  <2> QED BY <2>3, <1>4, <1>3, <1>6
<1>11. new.deadline <= Clock(w) + Ttl
  BY <1>1, <1>2, <1>6, Bounds DEF Clock, Inv, Types
<1>12. StateOf(d) \subseteq new.state
  BY <1>6
<1> QED BY <1>2, <1>4, <1>6, <1>8, <1>9, <1>10, <1>11, <1>12 DEF Lawful

LEMMA ProposedIsLawful ==
  ASSUME Inv, NEW w \in Worker, Putting(w)
  PROVE /\ Lawful(lease[w].etag, Proposed(w), now)
        /\ lease[w].etag # NoDoc
        /\ lease[w].etag.epoch = lease[w].epoch /\ Proposed(w).epoch = lease[w].epoch
        /\ Proposed(w).holder = IF call[w].op \in {"release", "finish"} THEN NoHolder
                                                                     ELSE HolderOf[w]
        /\ Proposed(w).deadline = call[w].time
        /\ call[w].op \in {"renew", "update", "release"} =>
             lease[w].etag.state \subseteq Proposed(w).state
<1> DEFINE d == lease[w].etag
           new == Proposed(w)
           op == call[w].op
           own == Mine(w, lease[w].epoch)
<1>1. op \in Ops
  BY DEF Putting
<1>2. lease[w] # NoLease /\ ~lease[w].released
  BY <1>1 DEF Inv, Sound, Called
<1>3. /\ lease[w].etag.epoch = lease[w].epoch /\ lease[w].etag.holder = lease[w].holder
      /\ lease[w].etag.state = lease[w].state /\ lease[w].holder = HolderOf[w]
  BY <1>2 DEF Inv, Sound, Tracks
<1>4. lease[w] \in Handles
  BY <1>2 DEF Inv, Types
<1>5. /\ d \in Documents /\ lease[w].epoch \in 1..MaxEpoch /\ lease[w].state \subseteq Tokens
  BY <1>4 DEF Handles
<1>6. call[w].time \in Nat
  BY DEF Inv, Types, Calls
<1>7. own \in Tokens
  BY <1>5 DEF Mine, Tokens
<1>8. /\ StateAfter(w, op, lease[w].state) \subseteq lease[w].state \cup {own}
      /\ op \in {"renew", "update", "release"} =>
           lease[w].state \subseteq StateAfter(w, op, lease[w].state)
  BY <1>1 DEF Ops, StateAfter
<1>9. /\ new.epoch = lease[w].epoch /\ new.deadline = call[w].time
      /\ new.state = StateAfter(w, op, lease[w].state)
      /\ new.holder = IF op \in {"release", "finish"} THEN NoHolder ELSE HolderOf[w]
  BY <1>3 DEF Proposed, Document
<1>10. new \in Documents
  <2>1. new = [epoch |-> new.epoch, holder |-> new.holder, deadline |-> new.deadline,
               state |-> new.state]
    BY DEF Proposed, Document
  <2>2. new.holder \in Holder \cup {NoHolder}
    BY <1>9 DEF Holder
  <2>3. new.state \subseteq Tokens
    BY <1>5, <1>7, <1>8, <1>9
  <2> QED BY <2>1, <2>2, <2>3, <1>5, <1>6, <1>9 DEF Documents
<1>11. Fenced(d, new)
  BY <1>3, <1>5, <1>9 DEF Fenced
<1>12. Living(d, new)
  <2> SUFFICES ASSUME NEW v \in Worker, NEW x \in 1..MaxEpoch,
                      Mine(v, x) \in StateOf(new) \ StateOf(d)
               PROVE new.epoch = x /\ d.holder = HolderOf[v]
    BY DEF Living
  <2>1. StateOf(new) = new.state /\ StateOf(d) = d.state
    BY <1>5, <1>10, ValuesAssumption DEF ValuesAssumption, StateOf
  <2>2. Mine(v, x) = own
    BY <2>1, <1>3, <1>8, <1>9
  <2>3. v = w /\ x = lease[w].epoch
    BY <2>2 DEF Mine
  <2> QED BY <2>3, <1>3, <1>9
<1>13. d # NoDoc
  BY <1>5, ValuesAssumption DEF ValuesAssumption
<1>14. ~(new.epoch > d.epoch)
  BY <1>3, <1>5, <1>9
<1> QED BY <1>3, <1>8, <1>9, <1>10, <1>11, <1>12, <1>13, <1>14 DEF Lawful

(* The same in the words of Monotone and Framed. *)
LEMMA LawfulMoves ==
  ASSUME NEW d \in Documents \cup {NoDoc}, NEW new, NEW t, Lawful(d, new, t)
  PROVE /\ new \in Documents /\ new # NoDoc
        /\ d # NoDoc => new.epoch >= d.epoch
BY ValuesAssumption DEF ValuesAssumption, Lawful, Fenced

(***************************************************************************)
(* Each step keeps the invariant                                           *)
(***************************************************************************)
THEOREM InitInv == Init => Inv
<1> SUFFICES ASSUME Init PROVE Inv
  OBVIOUS
<1>1. NoCall \in Calls
  BY DEF NoCall, Calls
<1>2. \A o \in Outsider : coop[o] \in Visits /\ Visited(coop[o])
  BY Bounds DEF Init, Visit, Visits, Visited
<1>3. Types
  BY <1>1, <1>2, Bounds DEF Init, Types
<1>4. \A w \in Worker : Sound(w)
  BY DEF Init, Sound, Tracks, Called, Flies, NoCall, Ops
<1> QED BY <1>2, <1>3, <1>4 DEF Inv

(* A call of w that is over, or that goes on with the handle as it is. *)
LEMMA CallStep ==
  ASSUME Inv, NEW w \in Worker, NEW c \in Calls, call' = [call EXCEPT ![w] = c],
         Called(w, c, lease[w], doc', now), calls' \in 0..MaxCalls,
         doc' \in Documents \cup {NoDoc},
         doc # NoDoc => doc' # NoDoc /\ doc'.epoch >= doc.epoch,
         UNCHANGED <<now, lease, flying, coop>>
  PROVE Inv'
<1>1. Types'
  BY DEF Inv, Types
<1>2. call'[w] = c /\ now' \in Nat /\ now' >= now
  BY Bounds DEF Inv, Types
<1>3. Tracks(w, lease[w], doc', now') /\ Flies(flying[w], doc', now')
  BY <1>2, StaysSound
<1>4. \A v \in Worker \ {w} :
        lease'[v] = lease[v] /\ call'[v] = call[v] /\ flying'[v] = flying[v]
  BY DEF Inv, Types
<1>5. /\ Tracks(w, lease'[w], doc', now') /\ Called(w, call'[w], lease'[w], doc', now')
      /\ Flies(flying'[w], doc', now')
  BY <1>2, <1>3
<1> QED BY <1>1, <1>2, <1>4, <1>5, Framed

LEMMA NoCallIsCalled ==
  ASSUME NEW w, NEW l, NEW d, NEW t
  PROVE NoCall \in Calls /\ Called(w, NoCall, l, d, t)
BY DEF Calls, NoCall, Called, Ops

(* A call that returns, having changed the document lawfully or not at all. *)
LEMMA ReturnStep ==
  ASSUME Inv, NEW w \in Worker, Return(w), calls' \in 0..MaxCalls,
         doc' \in Documents \cup {NoDoc},
         doc # NoDoc => doc' # NoDoc /\ doc'.epoch >= doc.epoch,
         UNCHANGED <<now, lease, flying, coop>>
  PROVE Inv'
<1>1. NoCall \in Calls /\ Called(w, NoCall, lease[w], doc', now)
  BY NoCallIsCalled
<1> QED BY <1>1, CallStep DEF Return

LEMMA Still ==
  ASSUME Inv, UNCHANGED doc
  PROVE /\ doc' \in Documents \cup {NoDoc}
        /\ doc # NoDoc => doc' # NoDoc /\ doc'.epoch >= doc.epoch
<1>1. doc \in Documents \cup {NoDoc}
  BY DEF Inv, Types
<1>2. doc # NoDoc => doc.epoch \in Nat
  BY <1>1, Bounds DEF Documents
<1> QED BY <1>1, <1>2

LEMMA TickInv == Inv /\ Tick => Inv'
<1> SUFFICES ASSUME Inv, Tick PROVE Inv'
  OBVIOUS
<1>1. Types'
  BY Bounds DEF Inv, Types, Tick
<1>2. now \in Nat /\ now' \in Nat /\ now <= now'
  BY Bounds DEF Inv, Types, Tick
<1>3. ASSUME NEW w \in Worker PROVE Sound(w)'
  <2>1. UNCHANGED doc
    BY DEF Tick
  <2>2. /\ Tracks(w, lease[w], doc', now') /\ Called(w, call[w], lease[w], doc', now')
        /\ Flies(flying[w], doc', now')
    BY <1>2, <2>1, Still, StaysSound
  <2> QED BY <2>2 DEF Tick, Sound
<1>4. \A o \in Outsider : Visited(coop[o])'
  BY DEF Inv, Tick
<1> QED BY <1>1, <1>3, <1>4 DEF Inv

LEMMA AcquireInv == ASSUME Inv, NEW w \in Worker, Acquire(w) PROVE Inv'
<1> DEFINE c == [NoCall EXCEPT !.op = "acquire", !.phase = "get", !.try = 1, !.time = Clock(w)]
<1>1. NoCall \in Calls /\ Clock(w) \in Nat
  BY NoCallIsCalled, Bounds DEF Inv, Types, Clock
<1>2. call' = [call EXCEPT ![w] = c]
  BY DEF Acquire
<1>3. c \in Calls
  BY <1>1 DEF Calls
<1>4. Called(w, c, lease[w], doc', now)
  <2>1. c.op = "acquire" /\ c.phase = "get" /\ c.try = 1 /\ c.time = Clock(w)
    BY <1>1 DEF Calls
  <2> QED BY <2>1, <1>1, Bounds DEF Called, Ops, Clock
<1>5. calls' \in 0..MaxCalls
  BY Bounds DEF Acquire, Counted, Inv, Types
<1> QED BY <1>2, <1>3, <1>4, <1>5, Still, CallStep DEF Acquire

LEMMA AcquireClockInv == ASSUME Inv, NEW w \in Worker, AcquireClock(w) PROVE Inv'
<1> DEFINE c == [call[w] EXCEPT !.phase = "get", !.time = Clock(w)]
<1>1. call[w] \in Calls /\ Called(w, call[w], lease[w], doc, now)
  BY DEF Inv, Types, Sound
<1>2. call' = [call EXCEPT ![w] = c]
  BY DEF AcquireClock, Inv, Types
<1>3. c \in Calls
  <2>1. Clock(w) \in Nat
    BY Bounds DEF Inv, Types, Clock
  <2> QED BY <1>1, <2>1 DEF Calls
<1>4. c.op = "acquire" /\ c.phase = "get" /\ c.try = call[w].try /\ c.time = now + Offset[w]
  BY <1>1 DEF AcquireClock, At, Calls, Clock
<1>5. Called(w, c, lease[w], doc', now)
  BY <1>1, <1>4, Bounds DEF AcquireClock, At, Called, Ops, Inv, Types
<1> QED BY <1>2, <1>3, <1>5, Still, CallStep DEF AcquireClock, Inv, Types

LEMMA AcquireGetInv == ASSUME Inv, NEW w \in Worker, AcquireGet(w) PROVE Inv'
<1>1. CASE doc # NoDoc /\ ~Expired(doc, call[w].time)
  BY <1>1, Still, ReturnStep DEF AcquireGet, Inv, Types
<1>2. CASE ~(doc # NoDoc /\ ~Expired(doc, call[w].time))
  <2> DEFINE c == [call[w] EXCEPT !.phase = "put", !.seen = doc]
  <2>1. call[w] \in Calls /\ Called(w, call[w], lease[w], doc, now)
    BY DEF Inv, Types, Sound
  <2>2. call' = [call EXCEPT ![w] = c]
    BY <1>2 DEF AcquireGet, Inv, Types
  <2>3. c \in Calls
    BY <2>1 DEF Calls, Inv, Types
  <2>4. /\ c.op = "acquire" /\ c.phase = "put" /\ c.try = call[w].try
        /\ c.time = call[w].time /\ c.seen = doc
    BY <2>1 DEF AcquireGet, At, Calls
  <2>5. call[w].op = "acquire" /\ call[w].time <= now + Offset[w] /\ call[w].time \in Nat
    BY <2>1 DEF AcquireGet, At, Called, Calls
  <2>6. doc = NoDoc \/ (doc \in Documents /\ doc.deadline \in Nat /\ doc.epoch \in Nat)
    BY Bounds DEF Inv, Types, Documents
  <2>7. Due(doc, now)
    BY <1>2, <2>5, <2>6, Bounds DEF Expired, Due, Inv, Types
  <2>8. Past(doc, doc)
    BY <2>6 DEF Past
  <2>9. doc' = doc
    BY DEF AcquireGet
  <2>10. Called(w, c, lease[w], doc, now)
    BY <2>1, <2>4, <2>5, <2>7, <2>8 DEF Called, Ops
  <2> QED BY <2>2, <2>3, <2>9, <2>10, Still, CallStep DEF AcquireGet, Inv, Types
<1> QED BY <1>1, <1>2

LEMMA RefuseToStealInv == ASSUME Inv, NEW w \in Worker, RefuseToSteal(w) PROVE Inv'
BY Still, ReturnStep DEF RefuseToSteal, Inv, Types

(* The put of an acquisition, if the document is still the one it saw. *)
LEMMA AcquiredMoves ==
  ASSUME Inv, NEW w \in Worker, At(w, "acquire", "put"), call[w].seen = doc,
         NextEpoch(doc) <= MaxEpoch, NEW transition \in BOOLEAN, doc' = Acquired(w, transition)
  PROVE /\ Lawful(doc, doc', now) /\ doc' \in Documents /\ doc' # NoDoc
        /\ doc # NoDoc => doc'.epoch >= doc.epoch /\ doc'.epoch > doc.epoch
        /\ doc'.holder = HolderOf[w] /\ doc'.deadline <= Clock(w) + Ttl
        /\ StateOf(doc) \subseteq StateOf(doc')
<1>1. /\ Lawful(doc, doc', now) /\ doc'.holder = HolderOf[w] /\ doc'.deadline <= Clock(w) + Ttl
      /\ doc # NoDoc => doc'.epoch = doc.epoch + 1
      /\ StateOf(doc) \subseteq doc'.state
  BY AcquiredIsLawful
<1>2. doc \in Documents \cup {NoDoc}
  BY DEF Inv, Types
<1>3. /\ doc' \in Documents /\ doc' # NoDoc
  BY <1>1, <1>2, LawfulMoves
<1>4. doc # NoDoc => doc.epoch \in Nat
  BY <1>2, Bounds DEF Documents
<1> QED BY <1>1, <1>2, <1>3, <1>4 DEF StateOf

LEMMA ProposedMoves ==
  ASSUME Inv, NEW w \in Worker, Putting(w), GuardHolds(w), doc' = Proposed(w)
  PROVE /\ Lawful(doc, doc', now) /\ doc' \in Documents /\ doc' # NoDoc /\ doc # NoDoc
        /\ doc'.epoch >= doc.epoch /\ doc'.epoch = doc.epoch /\ doc.epoch = lease[w].epoch
<1>1. /\ Lawful(doc, doc', now) /\ doc # NoDoc
      /\ doc.epoch = lease[w].epoch /\ doc'.epoch = lease[w].epoch
  BY ProposedIsLawful DEF GuardHolds
<1>2. doc \in Documents
  BY <1>1 DEF Inv, Types
<1>3. doc' \in Documents /\ doc' # NoDoc
  BY <1>1, <1>2, LawfulMoves
<1>4. doc.epoch \in Nat
  BY <1>2, Bounds DEF Documents
<1> QED BY <1>1, <1>3, <1>4

LEMMA AcquirePutInv == ASSUME Inv, NEW w \in Worker, AcquirePut(w) PROVE Inv'
<1>1. Took(w) /\ lease' = [lease EXCEPT ![w] = HandleOn(doc', "acquire")]
  BY DEF AcquirePut
<1> DEFINE h == HandleOn(doc', "acquire")
<1>2. /\ doc' \in Documents /\ doc' # NoDoc /\ Lawful(doc, doc', now)
      /\ doc # NoDoc => doc'.epoch >= doc.epoch
      /\ doc'.holder = HolderOf[w] /\ doc'.deadline <= Clock(w) + Ttl
  BY <1>1, AcquiredMoves DEF Took
<1>3. /\ h \in Handles /\ h # NoLease /\ h.epoch = doc'.epoch /\ h.holder = doc'.holder
      /\ h.deadline = doc'.deadline /\ h.state = doc'.state /\ h.etag = doc'
      /\ h.released = FALSE /\ h.origin = "acquire"
  BY <1>2, HandleIsOne
<1>4. NoCall \in Calls /\ Called(w, NoCall, h, doc', now)
  BY NoCallIsCalled
<1>5. /\ lease' = [lease EXCEPT ![w] = h] /\ call' = [call EXCEPT ![w] = NoCall]
      /\ UNCHANGED <<now, flying, coop, calls>>
  BY <1>1 DEF AcquirePut, Return
<1>6. Types'
  BY <1>2, <1>3, <1>4, <1>5 DEF Inv, Types
<1>7. lease'[w] = h /\ call'[w] = NoCall
  BY <1>5 DEF Inv, Types
<1>8. Past(doc', doc')
  BY <1>2, Bounds DEF Past, Documents
<1>9. Tracks(w, h, doc', now)
  BY <1>2, <1>3, <1>8 DEF Tracks, Clock
<1>10. now' \in Nat /\ now' >= now /\ now' = now
  BY <1>5, Bounds DEF Inv, Types
<1>11. Flies(flying[w], doc', now')
  BY <1>2, <1>10, StaysSound
<1>12. \A v \in Worker \ {w} :
         lease'[v] = lease[v] /\ call'[v] = call[v] /\ flying'[v] = flying[v]
  BY <1>5 DEF Inv, Types
<1> QED BY <1>2, <1>4, <1>5, <1>6, <1>7, <1>9, <1>10, <1>11, <1>12, Framed

LEMMA AcquireAgainInv ==
  ASSUME Inv, NEW w \in Worker, At(w, "acquire", "put"), AcquireAgain(w),
         doc' \in Documents \cup {NoDoc},
         doc # NoDoc => doc' # NoDoc /\ doc'.epoch >= doc.epoch
  PROVE Inv'
<1>1. calls' \in 0..MaxCalls /\ UNCHANGED <<now, lease, flying, coop>>
  BY DEF AcquireAgain, Inv, Types
<1>2. CASE call[w].try < AcquireAttempts
  <2> DEFINE c == [NoCall EXCEPT !.op = "acquire", !.phase = "clock", !.try = call[w].try + 1]
  <2>1. call[w] \in Calls /\ Called(w, call[w], lease[w], doc, now) /\ NoCall \in Calls
    BY NoCallIsCalled DEF Inv, Types, Sound
  <2>2. call' = [call EXCEPT ![w] = c]
    BY <1>2 DEF AcquireAgain, Inv, Types
  <2>3. call[w].try \in 1..AcquireAttempts
    BY <2>1 DEF At, Called
  <2>4. c \in Calls
    <3>1. call[w].try + 1 \in Nat
      BY <2>3
    <3> QED BY <2>1, <3>1 DEF Calls
  <2>5. c.op = "acquire" /\ c.phase = "clock" /\ c.try = call[w].try + 1 /\ c.time = NoCall.time
    BY <2>1 DEF Calls
  <2>6. Called(w, c, lease[w], doc', now)
    <3>1. now \in Nat /\ c.time = 0
      BY <2>5, Bounds DEF Inv, Types, NoCall
    <3> HIDE DEF c
    <3> QED BY <1>2, <2>3, <2>5, <3>1, Bounds DEF Called, Ops
  <2> QED BY <1>1, <2>2, <2>4, <2>6, CallStep
<1>3. CASE ~(call[w].try < AcquireAttempts)
  BY <1>1, <1>3, ReturnStep DEF AcquireAgain
<1> QED BY <1>2, <1>3

LEMMA AcquireRacedInv == ASSUME Inv, NEW w \in Worker, AcquireRaced(w) PROVE Inv'
BY Still, AcquireAgainInv DEF AcquireRaced

LEMMA AcquireRetriedInv == ASSUME Inv, NEW w \in Worker, AcquireRetried(w) PROVE Inv'
<1>1. doc' \in Documents /\ doc' # NoDoc /\ (doc # NoDoc => doc'.epoch >= doc.epoch)
  BY AcquiredMoves DEF AcquireRetried, Took
<1> QED BY <1>1, AcquireAgainInv DEF AcquireRetried, Took

LEMMA AttachInv == ASSUME Inv, NEW w \in Worker, Attach(w) PROVE Inv'
<1> DEFINE h == HandleOn(doc, "attach")
<1>1. doc \in Documents /\ doc # NoDoc /\ doc.epoch \in Nat
  BY Bounds DEF Attach, Inv, Types, Documents
<1>2. /\ h \in Handles /\ h # NoLease /\ h.epoch = doc.epoch /\ h.holder = doc.holder
      /\ h.deadline = doc.deadline /\ h.state = doc.state /\ h.etag = doc
      /\ h.released = FALSE /\ h.origin = "attach"
  BY <1>1, HandleIsOne
<1>3. lease' = [lease EXCEPT ![w] = h] /\ UNCHANGED <<now, doc, call, flying, coop>>
  BY DEF Attach
<1>4. calls' \in 0..MaxCalls
  BY Bounds DEF Attach, Counted, Inv, Types
<1>5. Types'
  BY <1>2, <1>3, <1>4 DEF Inv, Types
<1>6. lease'[w] = h /\ call'[w] = NoCall
  BY <1>3 DEF Inv, Types, Attach
<1>7. Past(doc, doc)
  BY <1>1 DEF Past
<1>8. Tracks(w, h, doc, now)
  BY <1>2, <1>7 DEF Tracks, Attach
<1>9. Called(w, NoCall, h, doc, now)
  BY NoCallIsCalled
<1>10. Flies(flying[w], doc, now)
  BY DEF Inv, Sound
<1>11. \A v \in Worker \ {w} :
         lease'[v] = lease[v] /\ call'[v] = call[v] /\ flying'[v] = flying[v]
  BY <1>3 DEF Inv, Types
<1>12. now' >= now
  BY <1>3, Bounds DEF Inv, Types
<1> QED BY <1>3, <1>5, <1>6, <1>8, <1>9, <1>10, <1>11, <1>12, Still, Framed

LEMMA BeginInv == ASSUME Inv, NEW w \in Worker, NEW op \in Ops, Begin(w, op) PROVE Inv'
<1> DEFINE time == CASE op = "renew" -> Clock(w) + Ttl
                     [] op \in {"release", "finish"} -> Clock(w)
                     [] OTHER -> lease[w].deadline
           c == [op |-> op, phase |-> "put", try |-> 1, seen |-> NoDoc, time |-> time]
<1>1. call' = [call EXCEPT ![w] = c]
  BY DEF Begin
<1>2. lease[w] # NoLease /\ ~lease[w].released /\ lease[w] \in Handles
  BY DEF Begin, Inv, Types
<1>3. lease[w].deadline \in Nat /\ now \in Nat /\ Offset[w] \in Nat /\ Ttl \in Nat
  BY <1>2, Bounds DEF Handles, Inv, Types
<1>4. /\ time \in Nat
      /\ op = "renew" => time = now + Offset[w] + Ttl
      /\ op \in {"release", "finish"} => time = now + Offset[w]
      /\ op \in {"write", "update"} => time = lease[w].deadline
  BY <1>3 DEF Clock, Ops
<1> HIDE DEF time
<1>5. lease[w].origin = "acquire" => lease[w].deadline <= now + Offset[w] + Ttl
  BY <1>2 DEF Inv, Sound, Tracks
<1>6. c \in Calls
  BY <1>4 DEF Calls
<1>7. Called(w, c, lease[w], doc', now)
  BY <1>2, <1>3, <1>4, <1>5, Bounds DEF Called, Ops
<1>8. calls' \in 0..MaxCalls
  BY Bounds DEF Begin, Counted, Inv, Types
<1> QED BY <1>1, <1>6, <1>7, <1>8, Still, CallStep DEF Begin

LEMMA PutInv == ASSUME Inv, NEW w \in Worker, Put(w) PROVE Inv'
<1> DEFINE h == [HandleOn(doc', lease[w].origin) EXCEPT
                   !.released = call[w].op \in {"release", "finish"}]
<1>1. Putting(w) /\ GuardHolds(w) /\ doc' = Proposed(w)
  BY DEF Put, Wrote
<1>2. lease[w] # NoLease /\ ~lease[w].released /\ lease[w] \in Handles
  BY <1>1 DEF Putting, Inv, Sound, Types, Called
<1>3. /\ doc' \in Documents /\ doc' # NoDoc /\ doc # NoDoc /\ doc'.epoch >= doc.epoch
  BY <1>1, ProposedMoves
<1>4. lease[w].origin \in {"acquire", "attach"}
  BY <1>2 DEF Handles
<1>5. /\ h \in Handles /\ h.epoch = doc'.epoch /\ h.holder = doc'.holder
      /\ h.deadline = doc'.deadline /\ h.state = doc'.state /\ h.etag = doc'
      /\ ~h.released => call[w].op \notin {"release", "finish"}
      /\ h.origin = lease[w].origin
  <2> DEFINE on == HandleOn(doc', lease[w].origin)
  <2>1. /\ on \in Handles /\ on.epoch = doc'.epoch /\ on.holder = doc'.holder
        /\ on.deadline = doc'.deadline /\ on.state = doc'.state
        /\ on.etag = doc' /\ on.origin = lease[w].origin
    BY <1>3, <1>4, HandleIsOne
  <2>2. CASE call[w].op \in {"release", "finish"}
    <3>1. h = [on EXCEPT !.released = TRUE]
      BY <2>2
    <3> HIDE DEF h, on
    <3> QED BY <2>1, <2>2, <3>1 DEF Handles
  <2>3. CASE call[w].op \notin {"release", "finish"}
    <3>1. (call[w].op \in {"release", "finish"}) = FALSE
      BY <2>3
    <3>2. h = [on EXCEPT !.released = FALSE]
      BY <3>1
    <3> HIDE DEF h, on
    <3> QED BY <2>1, <2>3, <3>2 DEF Handles
  <2> QED BY <2>2, <2>3
<1>6. h # NoLease
  BY <1>5, ValuesAssumption DEF ValuesAssumption
<1>7. lease' = [lease EXCEPT ![w] = h] /\ call' = [call EXCEPT ![w] = NoCall]
      /\ UNCHANGED <<now, flying, coop, calls>>
  BY DEF Put, Inv, Types, Return
<1>8. NoCall \in Calls /\ Called(w, NoCall, h, doc', now)
  BY NoCallIsCalled
<1> HIDE DEF h
<1>9. Types'
  BY <1>3, <1>5, <1>7, <1>8 DEF Inv, Types
<1>10. lease'[w] = h /\ call'[w] = NoCall
  BY <1>7 DEF Inv, Types
<1>11. Past(doc', doc')
  BY <1>3, Bounds DEF Past, Documents
<1>12. doc'.deadline = call[w].time
       /\ (~h.released => doc'.holder = HolderOf[w])
  BY <1>1, <1>5, ProposedIsLawful
<1>13. lease[w].origin = "acquire" => call[w].time <= now + Offset[w] + Ttl
  <2>1. Called(w, call[w], lease[w], doc, now) /\ Tracks(w, lease[w], doc, now)
    BY DEF Inv, Sound
  <2>2. call[w].op \in Ops
    BY <1>1 DEF Putting
  <2>3. call[w].time \in Nat /\ now \in Nat
    BY Bounds DEF Inv, Types, Calls
  <2> QED BY <1>2, <2>1, <2>2, <2>3, Bounds DEF Called, Tracks, Ops
<1>14. Tracks(w, h, doc', now)
  BY <1>5, <1>11, <1>12, <1>13 DEF Tracks
<1>15. now' \in Nat /\ now' >= now
  BY <1>7, Bounds DEF Inv, Types
<1>16. Flies(flying[w], doc', now')
  BY <1>3, <1>15, StaysSound
<1>17. \A v \in Worker \ {w} :
         lease'[v] = lease[v] /\ call'[v] = call[v] /\ flying'[v] = flying[v]
  BY <1>7 DEF Inv, Types
<1> QED BY <1>3, <1>7, <1>8, <1>9, <1>10, <1>14, <1>15, <1>16, <1>17, Framed

LEMMA PutRefusedInv == ASSUME Inv, NEW w \in Worker, PutRefused(w) PROVE Inv'
<1> DEFINE c == [call[w] EXCEPT !.phase = "get"]
<1>1. call[w] \in Calls /\ Called(w, call[w], lease[w], doc, now) /\ call[w].op \in Ops
  BY DEF Inv, Types, Sound, PutRefused, Putting
<1>2. call' = [call EXCEPT ![w] = c]
  BY DEF PutRefused, Inv, Types
<1>3. c \in Calls
  BY <1>1 DEF Calls
<1>4. /\ c.op = call[w].op /\ c.phase = "get" /\ c.try = call[w].try
      /\ c.time = call[w].time
  BY <1>1 DEF Calls
<1>5. Called(w, c, lease[w], doc', now)
  BY <1>1, <1>4 DEF Called, Ops
<1>6. /\ doc' \in Documents \cup {NoDoc}
      /\ doc # NoDoc => doc' # NoDoc /\ doc'.epoch >= doc.epoch
  <2>1. UNCHANGED doc \/ (Putting(w) /\ GuardHolds(w) /\ doc' = Proposed(w))
    BY DEF PutRefused, Wrote
  <2> QED BY <2>1, Still, ProposedMoves
<1>7. calls' \in 0..MaxCalls /\ UNCHANGED <<now, lease, flying, coop>>
  BY DEF PutRefused, Inv, Types
<1> HIDE DEF c
<1> QED BY <1>2, <1>3, <1>5, <1>6, <1>7, CallStep

LEMMA PutRaisesInv == ASSUME Inv, NEW w \in Worker, PutRaises(w) PROVE Inv'
<1>1. UNCHANGED doc \/ Wrote(w) \/ Took(w)
  BY DEF PutRaises
<1>2. /\ doc' \in Documents \cup {NoDoc}
      /\ doc # NoDoc => doc' # NoDoc /\ doc'.epoch >= doc.epoch
  BY <1>1, Still, ProposedMoves, AcquiredMoves DEF Wrote, Took
<1> QED BY <1>2, ReturnStep DEF PutRaises, Inv, Types

LEMMA LostInv == ASSUME Inv, NEW w \in Worker, Lost(w) PROVE Inv'
BY Still, ReturnStep DEF Lost, Inv, Types

LEMMA AbsorbInv == ASSUME Inv, NEW w \in Worker, Absorb(w) PROVE Inv'
<1> DEFINE l == lease[w]
           h == [l EXCEPT !.etag = doc, !.state = doc.state]
           c == [call[w] EXCEPT !.phase = "put", !.try = @ + 1]
<1>1. /\ call[w] \in Calls /\ Called(w, call[w], l, doc, now) /\ call[w].op \in Ops
      /\ call[w].phase = "get" /\ doc # NoDoc
      /\ doc.epoch = l.epoch /\ doc.holder = l.holder /\ Tracks(w, l, doc, now)
  BY DEF Inv, Types, Sound, Absorb, StillOurs
<1>2. l # NoLease /\ l \in Handles /\ ~l.released
  BY <1>1 DEF Called, Inv, Types
<1>3. doc \in Documents /\ doc.state \subseteq Tokens /\ doc.epoch \in Nat
  BY <1>1, Bounds DEF Inv, Types, Documents
<1>4. /\ h \in Handles /\ h.epoch = l.epoch /\ h.holder = l.holder /\ h.deadline = l.deadline
      /\ h.etag = doc /\ h.state = doc.state /\ h.origin = l.origin /\ h.released = l.released
  BY <1>2, <1>3 DEF Handles
<1>5. h # NoLease
  BY <1>4, ValuesAssumption DEF ValuesAssumption
<1>6. Past(doc, doc)
  BY <1>3 DEF Past
<1>7. Tracks(w, h, doc, now)
  BY <1>1, <1>2, <1>4, <1>6 DEF Tracks
<1>8. lease' = [lease EXCEPT ![w] = h] /\ UNCHANGED <<now, doc, flying, coop, calls>>
  BY DEF Absorb, Inv, Types
<1>9. call' = [call EXCEPT ![w] = NoCall] \/ (call' = [call EXCEPT ![w] = c] /\ ~LastTry(w))
  BY DEF Absorb, Return, Inv, Types
<1>10. ASSUME NEW n \in Calls, call' = [call EXCEPT ![w] = n], Called(w, n, h, doc, now)
       PROVE Inv'
  <2>1. Types'
    BY <1>4, <1>8, <1>10 DEF Inv, Types
  <2>2. lease'[w] = h /\ call'[w] = n
    BY <1>8, <1>10 DEF Inv, Types
  <2>3. \A v \in Worker \ {w} :
          lease'[v] = lease[v] /\ call'[v] = call[v] /\ flying'[v] = flying[v]
    BY <1>8, <1>10 DEF Inv, Types
  <2>4. now' >= now
    BY <1>8, Bounds DEF Inv, Types
  <2>5. Flies(flying[w], doc, now)
    BY DEF Inv, Sound
  <2> HIDE DEF h
  <2> QED BY <1>7, <1>8, <1>10, <2>1, <2>2, <2>3, <2>4, <2>5, Still, Framed
<1>11. CASE call' = [call EXCEPT ![w] = NoCall]
  <2>1. NoCall \in Calls /\ Called(w, NoCall, h, doc, now)
    BY NoCallIsCalled
  <2> HIDE DEF h
  <2> QED BY <1>10, <1>11, <2>1
<1>12. CASE call' = [call EXCEPT ![w] = c] /\ ~LastTry(w)
  <2>1. call[w].try \in 1..PutAttempts /\ call[w].try # PutAttempts
    BY <1>1, <1>12 DEF Called, LastTry
  <2>2. call[w].try + 1 \in 1..PutAttempts /\ call[w].try + 1 \in Nat
    BY <2>1, Bounds
  <2>3. /\ c \in Calls /\ c.op = call[w].op /\ c.phase = "put" /\ c.try = call[w].try + 1
        /\ c.time = call[w].time
    BY <1>1, <2>2 DEF Calls
  <2>4. Called(w, c, h, doc, now)
    BY <1>1, <1>2, <1>4, <1>5, <2>2, <2>3 DEF Called, Ops
  <2> HIDE DEF h, c
  <2> QED BY <1>10, <1>12, <2>3, <2>4
<1> QED BY <1>9, <1>11, <1>12

(* What a worker leaves behind keeps to the rules. *)
LEMMA SentFlies ==
  ASSUME Inv, NEW w \in Worker, NEW sent \in Sent(w)
  PROVE sent \in Flights \cup {NoPut} /\ Flies(sent, doc, now)
<1>1. CASE Putting(w)
  <2>1. /\ sent = [op |-> call[w].op, match |-> lease[w].etag, new |-> Proposed(w)]
        /\ call[w].op \in Ops
    BY <1>1 DEF Sent, Putting
  <2>2. lease[w] # NoLease /\ lease[w] \in Handles
    BY <1>1 DEF Putting, Inv, Sound, Types, Called
  <2>3. lease[w].etag \in Documents /\ Past(lease[w].etag, doc)
    BY <2>2 DEF Handles, Inv, Sound, Tracks
  <2>4. Lawful(lease[w].etag, Proposed(w), now) /\ Proposed(w) \in Documents
    BY <1>1, ProposedIsLawful DEF Lawful
  <2>5. sent \in Flights
    BY <2>1, <2>3, <2>4 DEF Flights
  <2>6. sent.op = call[w].op /\ sent.match = lease[w].etag /\ sent.new = Proposed(w)
    BY <2>1
  <2>7. ASSUME sent.op \notin {"write", "finish"}
        PROVE StateOf(sent.match) \subseteq StateOf(sent.new)
    <3>1. call[w].op \in {"renew", "update", "release"}
      BY <2>1, <2>6, <2>7 DEF Ops
    <3>2. lease[w].etag.state \subseteq Proposed(w).state
      BY <1>1, <3>1, ProposedIsLawful
    <3> QED BY <2>3, <2>4, <2>6, <3>2, ValuesAssumption DEF ValuesAssumption, StateOf
  <2> QED BY <2>3, <2>4, <2>5, <2>6, <2>7 DEF Flies
<1>2. CASE ~Putting(w) /\ At(w, "acquire", "put") /\ NextEpoch(call[w].seen) <= MaxEpoch
  <2>1. PICK transition \in BOOLEAN :
          sent = [op |-> "acquire", match |-> call[w].seen, new |-> Acquired(w, transition)]
    BY <1>2 DEF Sent
  <2> DEFINE new == Acquired(w, transition)
  <2>2. call[w].seen \in Documents \cup {NoDoc} /\ Past(call[w].seen, doc)
    BY <1>2 DEF Inv, Types, Calls, Sound, Called, At
  <2>3. /\ Lawful(call[w].seen, new, now) /\ new \in Documents
        /\ StateOf(call[w].seen) \subseteq new.state
    BY <1>2, AcquiredIsLawful DEF Lawful
  <2>4. sent.match = call[w].seen /\ sent.new = new
    BY <2>1
  <2>5. sent = [op |-> "acquire", match |-> call[w].seen, new |-> new]
    BY <2>1
  <2> HIDE DEF new
  <2>6. sent \in Flights
    BY <2>2, <2>3, <2>5 DEF Flights
  <2>7. StateOf(sent.match) \subseteq StateOf(sent.new)
    BY <2>3, <2>4, ValuesAssumption DEF ValuesAssumption, StateOf
  <2> QED BY <2>2, <2>3, <2>4, <2>6, <2>7 DEF Flies
<1>3. CASE ~Putting(w) /\ ~(At(w, "acquire", "put") /\ NextEpoch(call[w].seen) <= MaxEpoch)
  <2>1. sent = NoPut
    BY <1>3 DEF Sent
  <2> QED BY <2>1 DEF Flies
<1> QED BY <1>1, <1>2, <1>3

LEMMA RestartInv == ASSUME Inv, NEW w \in Worker, Restart(w) PROVE Inv'
<1>1. flying'[w] \in Flights \cup {NoPut} /\ Flies(flying'[w], doc, now)
  BY SentFlies DEF Restart, Inv, Types
<1>2. /\ lease' = [lease EXCEPT ![w] = NoLease] /\ call' = [call EXCEPT ![w] = NoCall]
      /\ flying' = [flying EXCEPT ![w] = flying'[w]]
      /\ UNCHANGED <<now, doc, coop, calls>>
  BY DEF Restart, Return, Inv, Types
<1>3. NoCall \in Calls /\ Called(w, NoCall, NoLease, doc, now)
  BY NoCallIsCalled
<1>4. Types'
  <2>1. flying' \in [Worker -> Flights \cup {NoPut}]
    BY <1>1, <1>2 DEF Inv, Types
  <2> QED BY <1>2, <1>3, <2>1 DEF Inv, Types
<1>5. lease'[w] = NoLease /\ call'[w] = NoCall
  BY <1>2 DEF Inv, Types
<1>6. Tracks(w, NoLease, doc, now)
  BY DEF Tracks
<1>7. \A v \in Worker \ {w} :
        lease'[v] = lease[v] /\ call'[v] = call[v] /\ flying'[v] = flying[v]
  BY <1>2 DEF Inv, Types
<1>8. now' >= now
  BY <1>2, Bounds DEF Inv, Types
<1> QED BY <1>1, <1>2, <1>3, <1>4, <1>5, <1>6, <1>7, <1>8, Still, Framed

LEMMA LandInv == ASSUME Inv, NEW w \in Worker, Land(w) PROVE Inv'
<1>1. Lawful(flying[w].match, flying[w].new, now)
  BY DEF Land, Inv, Sound, Flies
<1>2. /\ doc' \in Documents \cup {NoDoc}
      /\ doc # NoDoc => doc' # NoDoc /\ doc'.epoch >= doc.epoch
  <2>1. doc' = doc \/ (doc = flying[w].match /\ doc' = flying[w].new)
    BY DEF Land
  <2>2. doc \in Documents \cup {NoDoc}
    BY DEF Inv, Types
  <2> QED BY <1>1, <2>1, <2>2, Still, LawfulMoves
<1>3. flying' = [flying EXCEPT ![w] = NoPut] /\ UNCHANGED <<now, lease, call, coop, calls>>
  BY DEF Land
<1>4. Types'
  BY <1>2, <1>3 DEF Inv, Types
<1>5. now' \in Nat /\ now' >= now
  BY <1>3, Bounds DEF Inv, Types
<1>6. Tracks(w, lease[w], doc', now') /\ Called(w, call[w], lease[w], doc', now')
  BY <1>2, <1>5, StaysSound
<1>7. flying'[w] = NoPut
  BY <1>3 DEF Inv, Types
<1>8. Flies(NoPut, doc', now')
  BY DEF Flies
<1>9. \A v \in Worker \ {w} :
        lease'[v] = lease[v] /\ call'[v] = call[v] /\ flying'[v] = flying[v]
  BY <1>3 DEF Inv, Types
<1> QED BY <1>2, <1>3, <1>4, <1>5, <1>6, <1>7, <1>8, <1>9, Framed

(* An outsider leaves every worker sound. *)
LEMMA CoopStep ==
  ASSUME Inv, NEW o \in Outsider, NEW v \in Visits, Visited(v),
         coop' = [coop EXCEPT ![o] = v], UNCHANGED <<now, lease, call, flying, calls>>,
         doc' \in Documents \cup {NoDoc},
         doc # NoDoc => doc' # NoDoc /\ doc'.epoch >= doc.epoch
  PROVE Inv'
<1>1. Types'
  BY DEF Inv, Types
<1>2. now' \in Nat /\ now' >= now
  BY Bounds DEF Inv, Types
<1>3. ASSUME NEW w \in Worker PROVE Sound(w)'
  <2>1. /\ Tracks(w, lease[w], doc', now') /\ Called(w, call[w], lease[w], doc', now')
        /\ Flies(flying[w], doc', now')
    BY <1>2, StaysSound
  <2> QED BY <2>1 DEF Sound
<1>4. ASSUME NEW x \in Outsider PROVE Visited(coop'[x])
  BY DEF Inv, Types
<1> QED BY <1>1, <1>3, <1>4 DEF Inv

LEMMA CoopGetInv == ASSUME Inv, NEW o \in Outsider, CoopGet(o) PROVE Inv'
<1> DEFINE v == IF doc = NoDoc THEN Gone
                ELSE [phase |-> "put", try |-> coop[o].try + 1, seen |-> doc]
<1>1. coop' = [coop EXCEPT ![o] = v]
  BY DEF CoopGet, Inv, Types
<1>2. coop[o] \in Visits /\ Visited(coop[o]) /\ coop[o].phase \in {"new", "get"}
  BY DEF CoopGet, Inv, Types
<1>3. v \in Visits /\ Visited(v)
  <2>1. CASE doc = NoDoc
    BY <1>2, <2>1, Bounds DEF Visits, Visited, Gone, Visit
  <2>2. CASE doc # NoDoc
    <3>1. coop[o].try + 1 \in 0..UpdateAttempts
      BY <1>2, Bounds DEF Visits, Visited
    <3>2. doc \in Documents
      BY <2>2 DEF Inv, Types
    <3> QED BY <2>2, <3>1, <3>2 DEF Visits, Visited
  <2> QED BY <2>1, <2>2
<1> HIDE DEF v
<1> QED BY <1>1, <1>3, Still, CoopStep DEF CoopGet

(* A cooperative write adds the outsider's, and nothing else.              *)
LEMMA CoopMoves ==
  ASSUME Inv, NEW o \in Outsider, CoopPut(o)
  PROVE \/ UNCHANGED doc
        \/ /\ doc # NoDoc /\ doc' # NoDoc /\ doc' \in Documents
           /\ doc'.epoch = doc.epoch /\ doc'.holder = doc.holder
           /\ doc'.deadline = doc.deadline /\ doc'.state = doc.state \cup {o}
<1>1. CASE doc = coop[o].seen /\ doc' = [doc EXCEPT !.state = @ \cup {o}]
  <2>1. doc # NoDoc /\ doc \in Documents
    BY <1>1 DEF CoopPut, Inv, Types, Visited
  <2>2. doc' = [doc EXCEPT !.state = @ \cup {o}]
    BY <1>1
  <2>3. o \in Tokens
    BY DEF Tokens
  <2>4. /\ doc' \in Documents /\ doc'.epoch = doc.epoch /\ doc'.holder = doc.holder
        /\ doc'.deadline = doc.deadline /\ doc'.state = doc.state \cup {o}
    BY <2>1, <2>2, <2>3 DEF Documents
  <2> QED BY <2>1, <2>4, ValuesAssumption DEF ValuesAssumption
<1> QED BY <1>1 DEF CoopPut

LEMMA CoopPutInv == ASSUME Inv, NEW o \in Outsider, CoopPut(o) PROVE Inv'
<1>1. PICK v \in {Gone, IF coop[o].try < UpdateAttempts THEN Visit("get", coop[o].try) ELSE Gone} :
        coop' = [coop EXCEPT ![o] = v]
  BY DEF CoopPut, CoopDone, CoopAgain, Inv, Types
<1>2. coop[o] \in Visits
  BY DEF Inv, Types
<1>3. v \in Visits /\ Visited(v)
  BY <1>1, <1>2, Bounds DEF Visit, Gone, Visits, Visited
<1>4. /\ doc' \in Documents \cup {NoDoc}
      /\ doc # NoDoc => doc' # NoDoc /\ doc'.epoch >= doc.epoch
  BY CoopMoves, Still, Bounds DEF Documents
<1> QED BY <1>1, <1>3, <1>4, CoopStep DEF CoopPut

LEMMA InvInductive == Inv /\ [Next]_vars => Inv'
<1> SUFFICES ASSUME Inv, [Next]_vars PROVE Inv'
  OBVIOUS
<1>1. CASE Tick
  BY <1>1, TickInv
<1>2. ASSUME NEW w \in Worker, WorkerStep(w) PROVE Inv'
  BY <1>2, AcquireInv, AcquireClockInv, AcquireGetInv, RefuseToStealInv, AcquirePutInv,
     AcquireRacedInv, AcquireRetriedInv, AttachInv, BeginInv, PutInv, PutRefusedInv,
     PutRaisesInv, AbsorbInv, LostInv, RestartInv, LandInv DEF WorkerStep
<1>3. ASSUME NEW o \in Outsider, CoopGet(o) \/ CoopPut(o) PROVE Inv'
  BY <1>3, CoopGetInv, CoopPutInv
<1>4. CASE UNCHANGED vars
  BY <1>4 DEF vars, Inv, Types, Sound
<1> QED BY <1>1, <1>2, <1>3, <1>4 DEF Next

(* The inductive invariant holds in every reachable state. *)
THEOREM Invariance == Spec => []Inv
BY InitInv, InvInductive, PTL DEF Spec

(* Documents, handles and calls stay in their ranges, and no call makes more *)
(* attempts than its bound (acquire_sync, _guarded_put_sync,                 *)
(* cooperative_write_sync).                                                  *)
THEOREM TypeCorrect == Spec => []TypeOK
<1>1. Inv => TypeOK
  <2> SUFFICES ASSUME Inv PROVE TypeOK
    OBVIOUS
  <2>1. ASSUME NEW w \in Worker
        PROVE /\ call[w].op \in Ops \cup {"none", "acquire"}
              /\ call[w].phase \in {"none", "clock", "get", "put"}
              /\ call[w].time \in Nat /\ call[w].seen \in Documents \cup {NoDoc}
              /\ lease[w] \in Handles \cup {NoLease}
              /\ flying[w] = NoPut \/ flying[w].new \in Documents
    BY DEF Inv, Types, Calls, Flights
  <2>2. ASSUME NEW w \in Worker
        PROVE call[w].try \in 0..(IF call[w].op = "acquire" THEN AcquireAttempts
                                                           ELSE PutAttempts)
    <3>1. Called(w, call[w], lease[w], doc, now)
      BY DEF Inv, Sound
    <3> QED BY <3>1, <2>1, Bounds DEF Called, NoCall, Ops
  <2>3. \A o \in Outsider : coop[o].try \in 0..UpdateAttempts
    BY DEF Inv, Types, Visits
  <2> QED BY <2>1, <2>2, <2>3 DEF TypeOK, Inv, Types
<1> QED BY <1>1, Invariance, PTL

(***************************************************************************)
(* The writes of the document                                              *)
(***************************************************************************)
Arrived(w) == flying[w] # NoPut /\ doc = flying[w].match /\ doc' = flying[w].new

(* Whoever changes the document has its put answered, refused in error or    *)
(* raised, or lands it late.                                                 *)
LEMMA WorkerWrites ==
  ASSUME NEW w \in Worker, WorkerStep(w)
  PROVE UNCHANGED doc \/ Wrote(w) \/ Took(w) \/ Arrived(w)
<1>1. CASE AcquirePut(w) \/ AcquireRetried(w)
  BY <1>1 DEF AcquirePut, AcquireRetried
<1>2. CASE Put(w) \/ PutRefused(w)
  BY <1>2 DEF Put, PutRefused
<1>3. CASE PutRaises(w)
  BY <1>3 DEF PutRaises
<1>4. CASE Land(w)
  BY <1>4 DEF Land, Arrived
<1>5. CASE Acquire(w) \/ AcquireClock(w) \/ AcquireGet(w) \/ RefuseToSteal(w) \/ AcquireRaced(w)
  BY <1>5 DEF Acquire, AcquireClock, AcquireGet, RefuseToSteal, AcquireRaced
<1>6. CASE Attach(w) \/ (\E op \in Ops : Begin(w, op)) \/ Absorb(w) \/ Lost(w) \/ Restart(w)
  BY <1>6 DEF Attach, Begin, Absorb, Lost, Restart
<1> QED BY <1>1, <1>2, <1>3, <1>4, <1>5, <1>6 DEF WorkerStep

LEMMA WritesAreLawful ==
  ASSUME Inv, NEW w \in Worker, Wrote(w) \/ Took(w) \/ Arrived(w)
  PROVE Lawful(doc, doc', now) /\ doc' # NoDoc
<1>1. CASE Wrote(w)
  BY <1>1, ProposedMoves DEF Wrote
<1>2. CASE Took(w)
  BY <1>2, AcquiredMoves DEF Took
<1>3. CASE Arrived(w)
  <2>1. Lawful(doc, doc', now)
    BY <1>3 DEF Arrived, Inv, Sound, Flies
  <2>2. doc \in Documents \cup {NoDoc}
    BY DEF Inv, Types
  <2> QED BY <2>1, <2>2, LawfulMoves
<1> QED BY <1>1, <1>2, <1>3

LEMMA StepIsLawful ==
  ASSUME Inv, [Next]_vars
  PROVE UNCHANGED doc \/ (Lawful(doc, doc', now) /\ doc' # NoDoc)
<1>1. CASE Tick \/ UNCHANGED vars
  BY <1>1 DEF Tick, vars
<1>2. ASSUME NEW w \in Worker, WorkerStep(w)
      PROVE UNCHANGED doc \/ (Lawful(doc, doc', now) /\ doc' # NoDoc)
  BY <1>2, WorkerWrites, WritesAreLawful
<1>3. ASSUME NEW o \in Outsider, CoopPut(o), doc' # doc
      PROVE Lawful(doc, doc', now) /\ doc' # NoDoc
  <2>1. /\ doc # NoDoc /\ doc' # NoDoc /\ doc' \in Documents
        /\ doc'.epoch = doc.epoch /\ doc'.holder = doc.holder
        /\ doc'.state = doc.state \cup {o}
    BY <1>3, CoopMoves
  <2>2. doc'.epoch \in Nat
    BY <2>1, Bounds DEF Documents
  <2>3. Fenced(doc, doc')
    BY <2>1, <2>2 DEF Fenced
  <2>4. ASSUME NEW w \in Worker, NEW e \in 1..MaxEpoch
        PROVE Mine(w, e) \notin StateOf(doc') \ StateOf(doc)
    <3>1. Mine(w, e) # o
      BY ValuesAssumption DEF ValuesAssumption, Mine
    <3> QED BY <2>1, <3>1 DEF StateOf
  <2>5. Living(doc, doc')
    BY <2>4 DEF Living
  <2> QED BY <2>1, <2>2, <2>3, <2>5 DEF Lawful
<1>4. ASSUME NEW o \in Outsider, CoopGet(o) PROVE UNCHANGED doc
  BY <1>4 DEF CoopGet
<1> QED BY <1>1, <1>2, <1>3, <1>4 DEF Next

(* The fencing token: the epoch never goes back, and within an epoch the     *)
(* lease can only be released (docs/concepts/coordination.md).               *)
THEOREM EpochsFence == Spec => EpochFences
<1>1. ASSUME Inv, [Next]_vars, doc # NoDoc
      PROVE /\ doc' # NoDoc /\ doc'.epoch >= doc.epoch
            /\ doc'.epoch = doc.epoch => doc'.holder \in {doc.holder, NoHolder}
  BY <1>1, StepIsLawful, Still DEF Lawful, Fenced
<1> QED BY <1>1, Invariance, PTL DEF Spec, EpochFences

(* A write of one period reaches the document in that period, while its      *)
(* holder has it, or never (_guarded_put_sync); for workers that pass a      *)
(* holder: with None, an acquired lease looks released.                      *)
THEOREM NoZombie ==
  ASSUME NoHolder \notin Holder
  PROVE Spec => NoZombieWrite
<1>1. ASSUME Inv, [Next]_vars, NEW w \in Worker, NEW e \in 1..MaxEpoch,
             Mine(w, e) \in StateOf(doc') \ StateOf(doc)
      PROVE /\ doc'.epoch = e
            /\ doc # NoDoc /\ doc.epoch = e => doc.holder = HolderOf[w] /\ doc.holder # NoHolder
  <2>1. Living(doc, doc')
    BY <1>1, StepIsLawful DEF Lawful, StateOf
  <2>2. HolderOf[w] # NoHolder
    BY DEF Holder
  <2> QED BY <1>1, <2>1, <2>2 DEF Living
<1>2. ASSUME Inv, [Next]_vars
      PROVE \A w \in Worker, e \in 1..MaxEpoch :
              Mine(w, e) \in StateOf(doc') \ StateOf(doc) =>
                /\ doc'.epoch = e
                /\ doc # NoDoc /\ doc.epoch = e => doc.holder = HolderOf[w] /\ doc.holder # NoHolder
  BY <1>1, <1>2
<1> QED BY <1>2, Invariance, PTL DEF Spec, NoZombieWrite

(* Only a plain write or a final state of a handle drops anything from the   *)
(* state, on time or late (update_state_sync, cooperative_write_sync).       *)
THEOREM WritesLast == Spec => WritesAreKept
<1> DEFINE Kept ==
      \/ StateOf(doc) \subseteq StateOf(doc')
      \/ \E w \in Worker :
           \/ Putting(w) /\ call[w].op \in {"write", "finish"} /\ doc' = Proposed(w)
           \/ flying[w].op \in {"write", "finish"} /\ doc' = flying[w].new
<1>1. ASSUME Inv, [Next]_vars PROVE Kept
  <2>1. CASE UNCHANGED doc
    BY <2>1
  <2>2. ASSUME NEW w \in Worker, Wrote(w) PROVE Kept
    <3>1. CASE call[w].op \in {"write", "finish"}
      BY <2>2, <3>1 DEF Wrote
    <3>2. CASE call[w].op \notin {"write", "finish"}
      <4>1. call[w].op \in {"renew", "update", "release"}
        BY <2>2, <3>2 DEF Wrote, Putting, Ops
      <4>2. doc # NoDoc /\ doc' # NoDoc /\ doc.state \subseteq doc'.state
        BY <1>1, <2>2, <4>1, ProposedIsLawful, ProposedMoves DEF Wrote, GuardHolds
      <4> QED BY <4>2 DEF StateOf
    <3> QED BY <3>1, <3>2
  <2>3. ASSUME NEW w \in Worker, Took(w) PROVE Kept
    BY <1>1, <2>3, AcquiredMoves DEF Took
  <2>4. ASSUME NEW w \in Worker, Arrived(w) PROVE Kept
    <3>1. CASE flying[w].op \in {"write", "finish"}
      BY <2>4, <3>1 DEF Arrived
    <3>2. CASE flying[w].op \notin {"write", "finish"}
      <4>1. Flies(flying[w], doc, now)
        BY <1>1 DEF Inv, Sound
      <4> QED BY <2>4, <3>2, <4>1 DEF Flies, Arrived
    <3> QED BY <3>1, <3>2
  <2>5. ASSUME NEW o \in Outsider, CoopPut(o) PROVE Kept
    BY <1>1, <2>5, CoopMoves DEF StateOf
  <2>6. \/ UNCHANGED doc
        \/ \E w \in Worker : WorkerStep(w)
        \/ \E o \in Outsider : CoopPut(o)
    BY <1>1 DEF Next, vars, Tick, CoopGet
  <2> QED BY <2>1, <2>2, <2>3, <2>4, <2>5, <2>6, WorkerWrites
<1> QED BY <1>1, Invariance, PTL DEF Spec, WritesAreKept

(***************************************************************************)
(* A period that was acquired is its worker's                              *)
(***************************************************************************)
(* What every step but an acquisition or an attachment leaves of a handle,   *)
(* and of the puts in flight.                                                *)
Keeps(v) ==
  Open(v)' =>
    /\ Open(v) /\ lease'[v].epoch = lease[v].epoch /\ lease'[v].origin = lease[v].origin
    /\ lease'[v].deadline = lease[v].deadline \/ (doc'.holder = lease[v].holder
                                                  /\ lease'[v].deadline = doc'.deadline)

Delays(v) ==
  Stays(flying[v])' =>
    \/ flying'[v] = flying[v]
    \/ Open(v) /\ ~Open(v)' /\ flying'[v].match.epoch = lease[v].epoch

LEMMA OpenIsPast ==
  ASSUME Inv, NEW w \in Worker, Open(w)
  PROVE /\ lease[w] \in Handles /\ lease[w].epoch \in Nat /\ lease[w].deadline \in Nat
        /\ doc # NoDoc /\ doc \in Documents /\ doc.epoch \in Nat /\ doc.deadline \in Nat
        /\ lease[w].epoch <= doc.epoch
        /\ lease[w].holder = HolderOf[w]
<1>1. lease[w] \in Handles
  BY DEF Open, Inv, Types
<1>2. lease[w].etag \in Documents /\ lease[w].epoch \in Nat /\ lease[w].deadline \in Nat
  BY <1>1, Bounds DEF Handles
<1>3. lease[w].etag # NoDoc
  BY <1>2, ValuesAssumption DEF ValuesAssumption
<1>4. /\ lease[w].etag.epoch = lease[w].epoch /\ Past(lease[w].etag, doc)
      /\ lease[w].holder = HolderOf[w]
  BY DEF Open, Inv, Sound, Tracks
<1>5. doc # NoDoc /\ lease[w].epoch <= doc.epoch
  BY <1>3, <1>4 DEF Past
<1>6. doc \in Documents /\ doc.epoch \in Nat /\ doc.deadline \in Nat
  BY <1>5, Bounds DEF Inv, Types, Documents
<1> QED BY <1>1, <1>2, <1>4, <1>5, <1>6

LEMMA PuttingIsOpen ==
  ASSUME Inv, NEW w \in Worker, Putting(w)
  PROVE Open(w)
BY DEF Inv, Sound, Called, Putting, Open

LEMMA StepKeeps ==
  ASSUME Inv, NEW w \in Worker, WorkerStep(w), ~AcquirePut(w), ~Attach(w), NEW v \in Worker
  PROVE Keeps(v) /\ Delays(v)
<1>1. CASE v # w
  <2>1. lease'[v] = lease[v] /\ flying'[v] = flying[v]
    BY <1>1 DEF WorkerStep, Acquire, AcquireClock, AcquireGet, RefuseToSteal, AcquireRaced,
       AcquireRetried, AcquireAgain, Begin, Put, PutRefused, PutRaises, Absorb, Lost, Restart,
       Land, Inv, Types
  <2> QED BY <2>1 DEF Keeps, Delays, Open, Stays
<1>2. CASE v = w
  <2>1. CASE Put(w)
    <3> DEFINE h == [HandleOn(doc', lease[w].origin) EXCEPT
                       !.released = call[w].op \in {"release", "finish"}]
    <3>1. lease'[w] = h /\ flying'[w] = flying[w]
      BY <2>1 DEF Put, Inv, Types
    <3>2. Open(w) /\ Wrote(w)
      BY <2>1, PuttingIsOpen DEF Put, Wrote
    <3>3. doc' \in Documents /\ lease[w].origin \in {"acquire", "attach"}
          /\ doc'.epoch = lease[w].epoch
      BY <3>2, ProposedMoves, OpenIsPast DEF Wrote, Handles
    <3>4. /\ h.epoch = doc'.epoch /\ h.deadline = doc'.deadline
          /\ h.origin = lease[w].origin
      BY DEF HandleOn
    <3>5. Open(w)' => call[w].op \notin {"release", "finish"}
      BY <3>1 DEF Open, HandleOn
    <3>6. Open(w)' => doc'.holder = lease[w].holder
      BY <3>2, <3>5, ProposedIsLawful, OpenIsPast DEF Wrote
    <3> QED BY <1>2, <3>1, <3>2, <3>3, <3>4, <3>6 DEF Keeps, Delays
  <2>2. CASE Absorb(w)
    <3>1. lease'[w] = [lease[w] EXCEPT !.etag = doc, !.state = doc.state]
          /\ flying'[w] = flying[w]
      BY <2>2 DEF Absorb, Inv, Types
    <3>2. Open(w)
      BY <2>2 DEF Absorb, Inv, Sound, Called, Open
    <3>3. lease[w] \in Handles
      BY <3>2, OpenIsPast
    <3>4. /\ lease'[w].epoch = lease[w].epoch /\ lease'[w].origin = lease[w].origin
          /\ lease'[w].deadline = lease[w].deadline
      BY <3>1, <3>3 DEF Handles
    <3> QED BY <1>2, <3>1, <3>2, <3>4 DEF Keeps, Delays
  <2>3. CASE Restart(w)
    <3>1. lease'[w] = NoLease
      BY <2>3 DEF Restart, Inv, Types
    <3>2. CASE Putting(w)
      <4>1. flying'[w].match = lease[w].etag
        BY <2>3, <3>2 DEF Restart, Sent, Inv, Types
      <4>2. flying'[w].match.epoch = lease[w].epoch
        BY <3>2, <4>1, ProposedIsLawful
      <4> QED BY <1>2, <3>1, <3>2, <4>2, PuttingIsOpen DEF Keeps, Delays, Open
    <3>3. CASE ~Putting(w) /\ At(w, "acquire", "put") /\ NextEpoch(call[w].seen) <= MaxEpoch
      <4>1. PICK transition \in BOOLEAN :
              flying'[w] = [op |-> "acquire", match |-> call[w].seen,
                            new |-> Acquired(w, transition)]
        BY <2>3, <3>3 DEF Restart, Sent, Inv, Types
      <4>2. call[w].seen # NoDoc => Acquired(w, transition).epoch = call[w].seen.epoch + 1
        BY <3>3, AcquiredIsLawful
      <4>3. call[w].seen # NoDoc => call[w].seen.epoch \in Nat
        BY Bounds DEF Inv, Types, Calls, Documents
      <4>4. flying'[w].match = call[w].seen /\ flying'[w].new = Acquired(w, transition)
        BY <4>1
      <4>5. ASSUME flying'[w].match # NoDoc PROVE flying'[w].new.epoch # flying'[w].match.epoch
        <5>1. flying'[w].new.epoch = Acquired(w, transition).epoch
          BY <4>4
        <5>2. flying'[w].new.epoch = call[w].seen.epoch + 1
          BY <4>2, <4>4, <4>5, <5>1, Zenon
        <5>3. call[w].seen.epoch \in Nat /\ flying'[w].match.epoch = call[w].seen.epoch
          BY <4>3, <4>4, <4>5
        <5> QED BY <5>2, <5>3
      <4>6. ~Stays(flying[w])'
        BY <4>5 DEF Stays
      <4> QED BY <1>2, <3>1, <4>6 DEF Keeps, Delays, Open
    <3>4. CASE ~Putting(w) /\ ~(At(w, "acquire", "put") /\ NextEpoch(call[w].seen) <= MaxEpoch)
      <4>1. flying'[w] = NoPut
        BY <2>3, <3>4 DEF Restart, Sent, Inv, Types
      <4> QED BY <1>2, <3>1, <4>1 DEF Keeps, Delays, Open, Stays
    <3> QED BY <3>2, <3>3, <3>4
  <2>4. CASE Land(w)
    <3>1. lease'[w] = lease[w] /\ flying'[w] = NoPut
      BY <2>4 DEF Land, Inv, Types
    <3> QED BY <1>2, <3>1 DEF Keeps, Delays, Open, Stays
  <2>5. CASE ~Put(w) /\ ~Absorb(w) /\ ~Restart(w) /\ ~Land(w)
    <3>1. lease' = lease /\ flying' = flying
      BY <2>5 DEF WorkerStep, Acquire, AcquireClock, AcquireGet, RefuseToSteal, AcquireRaced,
         AcquireRetried, AcquireAgain, Begin, PutRefused, PutRaises, Lost
    <3> QED BY <3>1 DEF Keeps, Delays, Open, Stays
  <2> QED BY <2>1, <2>2, <2>3, <2>4, <2>5
<1> QED BY <1>1, <1>2

(* Whoever writes the document, an owner's period stays its own. *)
LEMMA KeptPeriod ==
  ASSUME Inv, PeriodInv, NEW w \in Worker, \A v \in Worker : Keeps(v) /\ Delays(v),
         \/ UNCHANGED doc
         \/ \E v \in Worker : Wrote(v) \/ Took(v) \/ Arrived(v)
         \/ \E o \in Outsider : CoopPut(o)
  PROVE Alone(w)'
<1> SUFFICES ASSUME Owns(w)'
    PROVE /\ \A v \in Worker \ {w} : Open(v)' => lease'[v].epoch # lease'[w].epoch
          /\ \A v \in Worker : Stays(flying[v])' => flying'[v].match.epoch # lease'[w].epoch
          /\ doc'.epoch = lease'[w].epoch =>
               /\ doc'.holder \in {HolderOf[w], NoHolder}
               /\ doc'.holder # NoHolder => lease'[w].deadline <= doc'.deadline
  BY DEF Alone
<1>1. Owns(w) /\ lease'[w].epoch = lease[w].epoch /\ Alone(w)
  BY DEF Owns, Keeps, PeriodInv
<1>2. ASSUME NEW v \in Worker \ {w}, Open(v)'
      PROVE lease'[v].epoch # lease'[w].epoch
  BY <1>1, <1>2 DEF Keeps, Alone
<1>3. ASSUME NEW v \in Worker, Stays(flying[v])'
      PROVE flying'[v].match.epoch # lease'[w].epoch
  <2>1. CASE flying'[v] = flying[v]
    BY <1>1, <1>3, <2>1 DEF Alone, Stays
  <2>2. CASE Open(v) /\ ~Open(v)' /\ flying'[v].match.epoch = lease[v].epoch
    <3>1. v # w
      BY <2>2 DEF Owns
    <3> QED BY <1>1, <2>2, <3>1 DEF Alone
  <2> QED BY <1>3, <2>1, <2>2 DEF Delays
<1>4. ASSUME doc'.epoch = lease'[w].epoch
      PROVE /\ doc'.holder \in {HolderOf[w], NoHolder}
            /\ doc'.holder # NoHolder => lease[w].deadline <= doc'.deadline
  <2>1. /\ lease[w].epoch <= doc.epoch /\ doc # NoDoc /\ doc.epoch \in Nat
        /\ doc \in Documents /\ doc.deadline \in Nat /\ lease[w] \in Handles
        /\ lease[w].epoch \in Nat /\ lease[w].deadline \in Nat
    BY <1>1, OpenIsPast DEF Owns
  <2>2. CASE UNCHANGED doc
    BY <1>1, <1>4, <2>2 DEF Alone
  <2>3. ASSUME NEW v \in Worker, Wrote(v)
        PROVE /\ doc'.holder \in {HolderOf[w], NoHolder}
              /\ doc'.holder # NoHolder => lease[w].deadline <= doc'.deadline
    <3>1. Open(v) /\ doc'.epoch = lease[v].epoch
      BY <2>3, PuttingIsOpen, ProposedMoves DEF Wrote
    <3>2. v = w
      BY <1>1, <1>4, <3>1 DEF Alone
    <3>3. /\ doc'.holder = IF call[w].op \in {"release", "finish"} THEN NoHolder
                                                               ELSE HolderOf[w]
          /\ doc'.deadline = call[w].time /\ call[w].op \in Ops
      BY <2>3, <3>2, ProposedIsLawful DEF Wrote, Putting
    <3>4. doc'.holder # NoHolder => call[w].op \in {"renew", "write", "update"}
      BY <3>3 DEF Ops
    <3>5. call[w].op \in {"renew", "write", "update"} => lease[w].deadline <= call[w].time
      BY <1>1, <2>1, <3>3 DEF Inv, Sound, Called, Owns
    <3> QED BY <3>3, <3>4, <3>5
  <2>4. ASSUME NEW v \in Worker, Took(v) PROVE FALSE
    <3>1. doc'.epoch > doc.epoch
      BY <2>1, <2>4, AcquiredMoves DEF Took
    <3> QED BY <1>1, <1>4, <2>1, <3>1
  <2>5. ASSUME NEW v \in Worker, Arrived(v) PROVE FALSE
    <3>1. flying[v].match = doc /\ flying[v].new = doc' /\ flying[v] # NoPut
      BY <2>5 DEF Arrived
    <3>2. Fenced(doc, doc') /\ doc' \in Documents
      BY <3>1 DEF Inv, Sound, Flies, Lawful
    <3>3. doc'.epoch \in Nat
      BY <3>2, Bounds DEF Documents
    <3>4. doc'.epoch = doc.epoch
      BY <1>1, <1>4, <2>1, <3>2, <3>3 DEF Fenced
    <3>5. Stays(flying[v])
      BY <2>1, <3>1, <3>4 DEF Stays
    <3> QED BY <1>1, <1>4, <3>1, <3>4, <3>5 DEF Alone
  <2>6. ASSUME NEW o \in Outsider, CoopPut(o)
        PROVE /\ doc'.holder \in {HolderOf[w], NoHolder}
              /\ doc'.holder # NoHolder => lease[w].deadline <= doc'.deadline
    <3>1. doc'.epoch = doc.epoch /\ doc'.holder = doc.holder /\ doc'.deadline = doc.deadline
      BY <2>6, CoopMoves
    <3> QED BY <1>1, <1>4, <3>1 DEF Alone
  <2> QED BY <2>2, <2>3, <2>4, <2>5, <2>6
<1>5. doc'.epoch = lease'[w].epoch /\ doc'.holder # NoHolder =>
        lease'[w].deadline <= doc'.deadline
  <2>1. \/ lease'[w].deadline = lease[w].deadline
        \/ lease'[w].deadline = doc'.deadline
    BY DEF Owns, Keeps
  <2>2. doc' # NoDoc /\ doc' \in Documents \cup {NoDoc}
    <3>1. doc # NoDoc
      BY <1>1, OpenIsPast DEF Owns
    <3>2. ASSUME NEW v \in Worker, Wrote(v) \/ Took(v) \/ Arrived(v)
          PROVE doc' # NoDoc /\ doc' \in Documents
      BY <3>2, WritesAreLawful DEF Lawful
    <3> QED BY <3>1, <3>2, CoopMoves, Still
  <2>3. doc'.deadline \in Nat
    BY <2>2 DEF Documents
  <2> QED BY <1>4, <2>1, <2>3
<1> QED BY <1>2, <1>3, <1>4, <1>5

LEMMA AcquiredPeriod ==
  ASSUME Inv, PeriodInv, NEW u \in Worker, AcquirePut(u), NEW w \in Worker
  PROVE Alone(w)'
<1>1. Took(u) /\ lease' = [lease EXCEPT ![u] = HandleOn(doc', "acquire")]
  BY DEF AcquirePut
<1>2. /\ doc' \in Documents /\ doc'.holder = HolderOf[u]
      /\ doc # NoDoc => doc'.epoch > doc.epoch
  BY <1>1, AcquiredMoves DEF Took
<1>3. /\ lease'[u].epoch = doc'.epoch /\ lease'[u].deadline = doc'.deadline
      /\ \A v \in Worker \ {u} : lease'[v] = lease[v]
      /\ flying' = flying
  BY <1>1 DEF AcquirePut, Inv, Types, HandleOn
<1>4. doc'.epoch \in Nat /\ doc'.deadline \in Nat
  BY <1>2, Bounds DEF Documents
<1>5. \A v \in Worker : Open(v) => lease[v].epoch \in Nat /\ lease[v].epoch < doc'.epoch
  BY <1>2, <1>4, OpenIsPast
<1>6. \A v \in Worker : Stays(flying[v]) => flying[v].match.epoch # doc'.epoch
  <2> SUFFICES ASSUME NEW v \in Worker, Stays(flying[v])
               PROVE flying[v].match.epoch # doc'.epoch
    OBVIOUS
  <2>1. flying[v].match \in Documents \cup {NoDoc} /\ Past(flying[v].match, doc)
    BY DEF Stays, Inv, Types, Sound, Flies, Flights
  <2>2. /\ flying[v].match \in Documents /\ doc # NoDoc /\ doc \in Documents
        /\ flying[v].match.epoch <= doc.epoch
    BY <2>1 DEF Stays, Past, Inv, Types
  <2>3. flying[v].match.epoch \in Nat /\ doc.epoch \in Nat
    BY <2>2, Bounds DEF Documents
  <2> QED BY <1>2, <1>4, <2>2, <2>3
<1>7. CASE w = u
  <2>1. \A v \in Worker \ {w} : Open(v)' => Open(v) /\ lease'[v].epoch = lease[v].epoch
    BY <1>3, <1>7 DEF Open
  <2>2. \A v \in Worker : Stays(flying[v])' => Stays(flying[v])
    BY <1>3 DEF Stays
  <2> QED BY <1>2, <1>3, <1>4, <1>5, <1>6, <1>7, <2>1, <2>2 DEF Alone
<1>8. CASE w # u
  <2> SUFFICES ASSUME Owns(w)' PROVE Alone(w)'
    BY DEF Alone
  <2>1. Owns(w) /\ lease'[w].epoch = lease[w].epoch /\ lease[w].epoch < doc'.epoch
        /\ lease[w].epoch \in Nat
    BY <1>3, <1>5, <1>8 DEF Owns, Open
  <2>2. ASSUME NEW v \in Worker \ {w}, Open(v)' PROVE lease'[v].epoch # lease'[w].epoch
    <3>1. CASE v = u
      BY <1>3, <1>4, <2>1, <3>1
    <3>2. CASE v # u
      BY <1>3, <2>1, <2>2, <3>2 DEF Alone, PeriodInv, Open
    <3> QED BY <3>1, <3>2
  <2>3. ASSUME NEW v \in Worker, Stays(flying[v])' PROVE flying'[v].match.epoch # lease'[w].epoch
    BY <1>3, <2>1, <2>3 DEF Alone, PeriodInv, Stays
  <2>4. doc'.epoch # lease'[w].epoch
    BY <1>4, <2>1
  <2> QED BY <2>2, <2>3, <2>4 DEF Alone
<1> QED BY <1>7, <1>8

LEMMA AttachedPeriod ==
  ASSUME HoldersApart, Inv, PeriodInv, NEW u \in Worker, Attach(u), NEW w \in Worker
  PROVE Alone(w)'
<1> SUFFICES ASSUME Owns(w)' PROVE Alone(w)'
  BY DEF Alone
<1>1. /\ lease' = [lease EXCEPT ![u] = HandleOn(doc, "attach")]
      /\ UNCHANGED <<doc, flying>>
      /\ doc.holder = HolderOf[u] /\ HolderOf[u] # NoHolder
  BY DEF Attach
<1>2. /\ lease'[u].epoch = doc.epoch /\ lease'[u].origin = "attach"
      /\ \A v \in Worker \ {u} : lease'[v] = lease[v]
  BY <1>1 DEF Inv, Types, HandleOn
<1>3. w # u
  BY <1>2 DEF Owns
<1>4. Owns(w) /\ lease'[w] = lease[w] /\ Alone(w)
  BY <1>2, <1>3 DEF Owns, Open, PeriodInv
<1>5. HolderOf[u] # HolderOf[w]
  BY <1>1, <1>3 DEF HoldersApart
<1>6. lease'[u].epoch # lease'[w].epoch
  BY <1>1, <1>2, <1>4, <1>5 DEF Alone
<1>7. ASSUME NEW v \in Worker \ {w}, Open(v)' PROVE lease'[v].epoch # lease'[w].epoch
  BY <1>2, <1>4, <1>6, <1>7 DEF Alone, Open
<1>8. ASSUME NEW v \in Worker, Stays(flying[v])' PROVE flying'[v].match.epoch # lease'[w].epoch
  BY <1>1, <1>4, <1>8 DEF Alone, Stays
<1> QED BY <1>1, <1>4, <1>7, <1>8 DEF Alone

LEMMA PeriodInductive ==
  ASSUME HoldersApart
  PROVE Inv /\ PeriodInv /\ [Next]_vars => PeriodInv'
<1> SUFFICES ASSUME Inv, PeriodInv, [Next]_vars, NEW w \in Worker PROVE Alone(w)'
  BY DEF PeriodInv
<1>1. ASSUME UNCHANGED <<lease, flying>>, UNCHANGED doc \/ \E o \in Outsider : CoopPut(o)
      PROVE Alone(w)'
  <2>1. \A v \in Worker : Keeps(v) /\ Delays(v)
    BY <1>1 DEF Keeps, Delays, Open
  <2> QED BY <1>1, <2>1, KeptPeriod
<1>2. CASE Tick \/ UNCHANGED vars
  BY <1>1, <1>2 DEF Tick, vars
<1>3. ASSUME NEW o \in Outsider, CoopGet(o) \/ CoopPut(o) PROVE Alone(w)'
  BY <1>1, <1>3 DEF CoopGet, CoopPut
<1>4. ASSUME NEW u \in Worker, WorkerStep(u) PROVE Alone(w)'
  <2>1. CASE AcquirePut(u)
    BY <2>1, AcquiredPeriod
  <2>2. CASE Attach(u)
    BY <2>2, AttachedPeriod
  <2>3. CASE ~AcquirePut(u) /\ ~Attach(u)
    BY <1>4, <2>3, StepKeeps, WorkerWrites, KeptPeriod
  <2> QED BY <2>1, <2>2, <2>3
<1> QED BY <1>2, <1>3, <1>4 DEF Next

(* No lease changes hands before the deadline in the handle of the worker    *)
(* that acquired it, but for the offset of the clocks, as long as no two     *)
(* workers share a holder (acquire_sync, attach_sync).                       *)
THEOREM NoStealIsEarly ==
  ASSUME HoldersApart
  PROVE Spec => NoEarlySteal
<1>1. Init => PeriodInv
  BY DEF Init, PeriodInv, Alone, Owns, Open
<1>2. ASSUME Inv, PeriodInv, [Next]_vars
      PROVE \A w \in Worker :
              /\ doc # NoDoc /\ doc'.epoch > doc.epoch /\ doc.holder # NoHolder
              /\ lease[w] # NoLease /\ ~lease[w].released /\ lease[w].epoch = doc.epoch
              /\ lease[w].origin = "acquire"
              => lease[w].deadline <= now + MaxOffset
  <2> SUFFICES ASSUME NEW w \in Worker, doc # NoDoc, doc'.epoch > doc.epoch,
                      doc.holder # NoHolder, Owns(w), lease[w].epoch = doc.epoch
               PROVE lease[w].deadline <= now + MaxOffset
    BY DEF Owns, Open
  <2>1. doc \in Documents /\ doc.epoch \in Nat /\ doc.deadline \in Nat /\ lease[w].deadline \in Nat
    BY <1>2, OpenIsPast DEF Owns
  <2>2. doc' # doc
    BY <2>1
  <2>3. doc.deadline <= now + MaxOffset
    BY <1>2, <2>2, StepIsLawful DEF Lawful, Due
  <2>4. lease[w].deadline <= doc.deadline
    BY <1>2 DEF PeriodInv, Alone
  <2>5. now \in Nat
    BY <1>2, Bounds DEF Inv, Types
  <2> QED BY <2>1, <2>3, <2>4, <2>5, Bounds
<1> QED BY <1>1, <1>2, Invariance, PeriodInductive, PTL DEF Spec, NoEarlySteal
=============================================================================
