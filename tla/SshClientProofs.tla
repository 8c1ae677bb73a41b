-------------------------- MODULE SshClientProofs --------------------------
(***************************************************************************)
(* Proofs about SshClient, for any number of sessions and of calls that    *)
(* set credentials: secrets go to verified servers only, what was refused  *)
(* is not offered again, what was set is used, channels are opened for     *)
(* authenticated users, and terminals come before programs.                *)
(*                                                                         *)
(* The slots run in the middle of d_readyRead(), when a refused method is  *)
(* not yet noted as failed.  Hence two predicates of a client: what slots  *)
(* find and keep (Sound), and what holds between the calls (Good).         *)
(***************************************************************************)
EXTENDS SshClient, TLAPS

Fields ==
    {"state", "available", "failed", "try", "pass", "key", "known", "session", "trying",
     "verified", "authenticated", "sets", "tried", "late", "leaked", "repeated", "rash",
     "timers"}

IsClient(c) == DOMAIN c = Fields

\* The number of a secret is at most the number of the calls that set one.
Numbers(c) ==
    /\ c.sets \in Nat
    /\ c.pass \in 0 .. c.sets /\ c.key \in 0 .. c.sets
    /\ \A o \in c.tried : o[2] \in 0 .. c.sets /\ o[3] \in 0 .. c.sets

\* Only a verified server is asked for its methods.
Trusted(c) ==
    /\ c.available # {} => c.verified = TRUE
    /\ c.state \in {3, 5} => c.verified = TRUE
    /\ c.leaked = FALSE

\* State 5 without a method to try: the server needs none.
Admitted(c) ==
    /\ c.state = 6 => c.authenticated = TRUE
    /\ c.state = 5 /\ c.try \notin Methods => c.authenticated = TRUE

Remembered(c) ==
    /\ c.repeated = FALSE
    /\ \A m \in Methods : Offer(c, m) \in c.tried => m \in c.failed \/ m = c.try

Sound(c) == IsClient(c) /\ Numbers(c) /\ Trusted(c) /\ Admitted(c) /\ Remembered(c)

\* While a method is looked for, the one being tried is the only one that was
\* offered and is not noted as failed.
Settled(c) ==
    /\ c.trying \in BOOLEAN
    /\ c.state \in {4, 5} =>
          \A m \in Methods : Offer(c, m) \in c.tried => m \in c.failed \/ (m = c.try /\ c.trying = TRUE)
    /\ c.state \in {0, 2, 3} => c.tried = {}
    /\ c.state \in {0, 2, 3, 4} => c.trying = FALSE
    /\ c.state = 5 /\ c.trying = FALSE => c.tried = {}

Good(c) == Sound(c) /\ Settled(c)

\* Without a connection nothing has been tried yet.
Fresh(c) == c.state \in {0, 1} /\ c.tried = {} /\ c.trying = FALSE

Held == Good(client) /\ (tcp # "open" => Fresh(client))

SshInv == left \in BOOLEAN /\ (left = FALSE => Held)

-----------------------------------------------------------------------------
(* What the application calls.                                             *)

LEMMA ResetIsGood ==
    ASSUME NEW c, Sound(c)
    PROVE  Good(Reset(c)) /\ Fresh(Reset(c)) /\ Reset(c).try = c.try
<1> DEFINE d == Reset(c)
<1>1. /\ IsClient(d)
      /\ d.state = 0 /\ d.available = {} /\ d.failed = {}
      /\ d.try = c.try /\ d.pass = c.pass /\ d.key = c.key
      /\ d.trying = FALSE /\ d.sets = c.sets /\ d.tried = {}
      /\ d.leaked = c.leaked /\ d.repeated = c.repeated
  BY DEF Sound, IsClient, Reset, Fields
<1> HIDE DEF d
<1>2. Numbers(d)
  BY <1>1 DEF Sound, Numbers
<1>3. Trusted(d) /\ Admitted(d) /\ Remembered(d)
  BY <1>1 DEF Sound, Trusted, Admitted, Remembered
<1>4. Settled(d) /\ Fresh(d)
  BY <1>1 DEF Settled, Fresh
<1> QED
  BY <1>1, <1>2, <1>3, <1>4 DEF Good, Sound, d

LEMMA RenewEffect ==
    ASSUME NEW c, IsClient(c), NEW ms
    PROVE  LET d == Renew(c, ms) IN
           /\ IsClient(d)
           /\ d.state = c.state /\ d.available = c.available /\ d.failed = c.failed \ ms
           /\ d.try = c.try /\ d.pass = c.pass /\ d.key = c.key /\ d.sets = c.sets + 1
           /\ d.trying = c.trying /\ d.verified = c.verified
           /\ d.authenticated = c.authenticated /\ d.tried = c.tried
           /\ d.leaked = c.leaked /\ d.repeated = c.repeated
BY DEF IsClient, Renew, StartTimer, Fields

LEMMA PassphraseKeeps ==
    ASSUME NEW c, Sound(c)
    PROVE  LET d == SetPassphrase(c) IN
           /\ Sound(d) /\ d.try = c.try
           /\ Settled(c) => Settled(d)
           /\ Fresh(c) => Fresh(d)
<1> DEFINE d == SetPassphrase(c)
<1>1. /\ IsClient(d)
      /\ d.state = c.state /\ d.available = c.available /\ d.failed = c.failed \ Methods
      /\ d.try = c.try /\ d.pass = c.sets + 1 /\ d.key = c.key /\ d.sets = c.sets + 1
      /\ d.trying = c.trying /\ d.verified = c.verified
      /\ d.authenticated = c.authenticated /\ d.tried = c.tried
      /\ d.leaked = c.leaked /\ d.repeated = c.repeated
  BY RenewEffect DEF SetPassphrase, Sound, IsClient, Fields
<1> HIDE DEF d
<1>2. Numbers(d)
  BY <1>1 DEF Sound, Numbers
<1>3. ASSUME NEW m \in Methods
      PROVE  Offer(d, m) \notin d.tried
  BY <1>1 DEF Sound, Numbers, Offer
<1>4. Sound(d)
  BY <1>1, <1>2, <1>3 DEF Sound, Trusted, Admitted, Remembered
<1>5. Settled(c) => Settled(d)
  BY <1>1, <1>3 DEF Settled
<1> QED
  BY <1>1, <1>4, <1>5 DEF Fresh, d

LEMMA KeyFilesKeep ==
    ASSUME NEW c, Sound(c)
    PROVE  LET d == SetKeyFiles(c) IN
           /\ Sound(d) /\ d.try = c.try
           /\ Settled(c) => Settled(d)
           /\ Fresh(c) => Fresh(d)
<1> DEFINE d == SetKeyFiles(c)
<1>1. /\ IsClient(d)
      /\ d.state = c.state /\ d.available = c.available /\ d.failed = c.failed \ {"publickey"}
      /\ d.try = c.try /\ d.pass = c.pass /\ d.key = c.sets + 1 /\ d.sets = c.sets + 1
      /\ d.trying = c.trying /\ d.verified = c.verified
      /\ d.authenticated = c.authenticated /\ d.tried = c.tried
      /\ d.leaked = c.leaked /\ d.repeated = c.repeated
  BY RenewEffect DEF SetKeyFiles, Sound, IsClient, Fields
<1> HIDE DEF d
<1>2. Numbers(d)
  BY <1>1 DEF Sound, Numbers
<1>3. Offer(d, "publickey") \notin d.tried
  BY <1>1 DEF Sound, Numbers, Offer
<1>4. Offer(d, "password") = Offer(c, "password") /\ Methods \ {"publickey"} = {"password"}
  BY <1>1 DEF Offer, Methods
<1>5. Sound(d)
  BY <1>1, <1>2, <1>3, <1>4 DEF Sound, Trusted, Admitted, Remembered
<1>6. Settled(c) => Settled(d)
  BY <1>1, <1>3, <1>4 DEF Settled
<1> QED
  BY <1>1, <1>5, <1>6 DEF Fresh, d

\* A slot may end a try, never begin one.
LEMMA TryingStays ==
    ASSUME NEW c, Sound(c), c.trying = FALSE, NEW reaction
    PROVE  React(c, reaction).trying = FALSE
<1>1. SetPassphrase(c).trying = FALSE
  BY RenewEffect DEF SetPassphrase, Sound, IsClient, Fields
<1>2. SetKeyFiles(c).trying = FALSE
  BY RenewEffect DEF SetKeyFiles, Sound, IsClient, Fields
<1>3. Reset(c).trying = FALSE
  BY ResetIsGood DEF Fresh
<1> QED
  BY <1>1, <1>2, <1>3 DEF React

\* A slot keeps what it finds.
LEMMA SlotsKeep ==
    ASSUME NEW c, Sound(c), NEW reaction
    PROVE  LET d == React(c, reaction) IN
           /\ Sound(d) /\ d.try = c.try
           /\ Settled(c) => Settled(d)
           /\ Fresh(c) => Fresh(d)
<1>1. CASE React(c, reaction) = c
  BY <1>1
<1>2. CASE React(c, reaction) = SetPassphrase(c)
  BY <1>2, PassphraseKeeps
<1>3. CASE React(c, reaction) = SetKeyFiles(c)
  BY <1>3, KeyFilesKeep
<1>4. CASE React(c, reaction) = Reset(c)
  BY <1>4, ResetIsGood DEF Good
<1> QED
  BY <1>1, <1>2, <1>3, <1>4 DEF React

-----------------------------------------------------------------------------
(* d_readyRead()                                                           *)

\* What the parts of the invariant speak of.
Alike(c, d) ==
    /\ IsClient(d)
    /\ d.state = c.state /\ d.available = c.available /\ d.failed = c.failed
    /\ d.try = c.try /\ d.pass = c.pass /\ d.key = c.key /\ d.sets = c.sets
    /\ d.verified = c.verified /\ d.authenticated = c.authenticated /\ d.tried = c.tried
    /\ d.leaked = c.leaked /\ d.repeated = c.repeated

LEMMA AlikeKeeps ==
    ASSUME NEW c, NEW d, Sound(c), Alike(c, d)
    PROVE  /\ Sound(d)
           /\ Settled(c) /\ d.trying = c.trying => Settled(d)
           /\ Fresh(c) /\ d.trying = c.trying => Fresh(d)
<1>1. Offer(d, "publickey") = Offer(c, "publickey") /\ Offer(d, "password") = Offer(c, "password")
  BY DEF Alike, Offer
<1>2. Sound(d)
  BY <1>1 DEF Alike, Sound, Numbers, Trusted, Admitted, Remembered, Methods
<1>3. Settled(c) /\ d.trying = c.trying => Settled(d)
  BY <1>1 DEF Alike, Settled, Methods
<1>4. Fresh(c) /\ d.trying = c.trying => Fresh(d)
  BY DEF Alike, Fresh
<1> QED
  BY <1>2, <1>3, <1>4

LEMMA TimersDoNotMatter ==
    ASSUME NEW c, Good(c), NEW timers
    PROVE  LET d == [c EXCEPT !.timers = timers] IN Good(d) /\ (Fresh(c) => Fresh(d))
<1> DEFINE d == [c EXCEPT !.timers = timers]
<1>1. Alike(c, d) /\ d.trying = c.trying
  BY DEF Good, Sound, Alike, IsClient, Fields
<1> HIDE DEF d
<1> QED
  BY <1>1, AlikeKeeps DEF Good, d

\* A method that was not refused is tried in state 4, or in state 5 when
\* nothing was tried before.
LEMMA BeginKeeps ==
    ASSUME NEW c, Good(c), NEW m \in Methods, c.state \in {4, 5},
           c.verified = TRUE, Offer(c, m) \notin c.tried, c.trying = FALSE
    PROVE  LET d == Begin(c, m) IN
           Good(d) /\ d.try = m /\ d.state = 5 /\ d.available = c.available
<1> DEFINE d == Begin(c, m)
<1>1. /\ IsClient(d)
      /\ d.state = 5 /\ d.available = c.available /\ d.failed = c.failed
      /\ d.try = m /\ d.pass = c.pass /\ d.key = c.key /\ d.sets = c.sets
      /\ d.trying = TRUE /\ d.verified = c.verified
      /\ d.tried = c.tried \cup {Offer(c, m)}
      /\ d.leaked = FALSE /\ d.repeated = FALSE
  BY DEF Good, Sound, Trusted, Remembered, IsClient, Begin, Fields
<1> HIDE DEF d
<1>2. Offer(c, m)[2] \in 0 .. c.sets /\ Offer(c, m)[3] \in 0 .. c.sets
  BY DEF Good, Sound, Numbers, Offer
<1>3. Numbers(d)
  BY <1>1, <1>2 DEF Good, Sound, Numbers
<1>4. ASSUME NEW n \in Methods, Offer(d, n) \in d.tried
      PROVE  n \in d.failed \/ n = m
  <2>1. Offer(d, n) = Offer(c, n)
    BY <1>1 DEF Offer
  <2>2. CASE Offer(c, n) = Offer(c, m)
    BY <2>2 DEF Offer
  <2>3. CASE Offer(c, n) \in c.tried
    BY <2>3, <1>1 DEF Good, Settled
  <2> QED
    BY <2>1, <2>2, <2>3, <1>1, <1>4
<1>5. Trusted(d) /\ Admitted(d) /\ Remembered(d)
  BY <1>1, <1>4 DEF Trusted, Admitted, Remembered
<1>6. \A n \in Methods : Offer(d, n) \in d.tried =>
          n \in d.failed \/ (n = d.try /\ d.trying = TRUE)
  BY <1>1, <1>4
<1>7. /\ d.trying = TRUE /\ d.trying \in BOOLEAN /\ d.trying # FALSE
      /\ d.state \notin {0, 2, 3, 4}
  <2>1. d.trying = TRUE /\ d.state = 5
    BY <1>1
  <2>2. d.state \notin {0, 2, 3, 4}
    BY <2>1, SMT
  <2> QED
    BY <2>1, <2>2, Zenon
<1>8. Settled(d)
  BY <1>6, <1>7, Zenon DEF Settled
<1> QED
  BY <1>1, <1>3, <1>5, <1>8 DEF Good, Sound, d

LEMMA UntriedIsNew ==
    ASSUME NEW c, Good(c), c.state = 4, NEW m \in Untried(c)
    PROVE  /\ m \in Methods => Offer(c, m) \notin c.tried
           /\ c.verified = TRUE /\ c.trying = FALSE
BY DEF Good, Sound, Settled, Trusted, Untried

LEMMA RequiredKeeps ==
    ASSUME NEW c, Good(c), NEW slot
    PROVE  Good(AuthenticationRequired(c, slot))
<1> DEFINE d == [c EXCEPT !.rash = @ \/ \E m \in c.available \ c.late :
                             HasCredentials(c, m) /\ Offer(c, m) \notin c.tried]
<1>1. Alike(c, d) /\ d.trying = c.trying
  BY DEF Good, Sound, Alike, IsClient, Fields
<1>2. AuthenticationRequired(c, slot) = React(d, slot.required)
  BY DEF AuthenticationRequired
<1> HIDE DEF d
<1>3. Sound(d) /\ Settled(d)
  BY <1>1, AlikeKeeps DEF Good
<1> QED
  BY <1>2, <1>3, SlotsKeep DEF Good

\* The slot of error() runs before the refused method is noted.
LEMMA RefusedKeeps ==
    ASSUME NEW c, Good(c), NEW slot
    PROVE  LET d == Refused(c, slot) IN Good(d) /\ d.state = 4
<1> DEFINE b == [c EXCEPT !.trying = FALSE]
           e == React(b, slot.error)
           d == Refused(c, slot)
<1>1. Alike(c, b) /\ b.trying = FALSE
  BY DEF Good, Sound, Alike, IsClient, Fields
<1>2. Sound(b) /\ b.try = c.try
  BY <1>1, AlikeKeeps DEF Good, Alike
<1> HIDE DEF b
<1>4. Sound(e) /\ e.try = c.try
  BY <1>2, SlotsKeep
<1>5. e.trying = FALSE
  BY <1>1, <1>2, TryingStays
<1>6. d = [e EXCEPT !.failed = @ \cup {c.try}, !.state = 4]
  BY DEF Refused, b
<1> HIDE DEF e, d
<1>7. /\ IsClient(d)
      /\ d.state = 4 /\ d.available = e.available /\ d.failed = e.failed \cup {e.try}
      /\ d.try = e.try /\ d.pass = e.pass /\ d.key = e.key /\ d.sets = e.sets
      /\ d.trying = FALSE /\ d.verified = e.verified
      /\ d.authenticated = e.authenticated /\ d.tried = e.tried
      /\ d.leaked = e.leaked /\ d.repeated = e.repeated
  BY <1>4, <1>5, <1>6 DEF Sound, IsClient, Fields
<1>8. Offer(d, "publickey") = Offer(e, "publickey") /\ Offer(d, "password") = Offer(e, "password")
  BY <1>7 DEF Offer
<1>9. Sound(d)
  BY <1>4, <1>7, <1>8 DEF Sound, Numbers, Trusted, Admitted, Remembered, Methods
<1>10. \A m \in Methods : Offer(d, m) \in d.tried => m \in d.failed
  BY <1>4, <1>7, <1>8 DEF Sound, Remembered, Methods
<1>11. d.trying \in BOOLEAN /\ d.trying = FALSE /\ d.state \notin {0, 2, 3} /\ d.state # 5
  <2>1. d.trying = FALSE /\ d.state = 4
    BY <1>7
  <2>2. d.state \notin {0, 2, 3} /\ d.state # 5
    BY <2>1, SMT
  <2> QED
    BY <2>1, <2>2, Zenon
<1>12. Settled(d)
  BY <1>10, <1>11, Zenon DEF Settled
<1> QED
  BY <1>7, <1>9, <1>12 DEF Good, d

LEMMA LookKeeps ==
    ASSUME NEW c, Good(c), c.state = 4, NEW slot, NEW readable
    PROVE  Good(LookForMethod(c, slot, readable))
<1> DEFINE password(b) == IF "password" \in Untried(b) THEN Begin(b, "password")
                          ELSE AuthenticationRequired(b, slot)
<1>1. ASSUME NEW b, Good(b), b.state = 4
      PROVE  Good(password(b))
  <2>1. CASE "password" \in Untried(b)
    BY <1>1, <2>1, UntriedIsNew, BeginKeeps DEF Methods
  <2>2. CASE "password" \notin Untried(b)
    BY <1>1, <2>2, RequiredKeeps
  <2> QED
    BY <2>1, <2>2
<1>2. ASSUME "publickey" \in Untried(c)
      PROVE  Good(Begin(c, "publickey"))
  BY <1>2, UntriedIsNew, BeginKeeps DEF Methods
<1>3. ASSUME "publickey" \in Untried(c)
      PROVE  LET b == Refused(Begin(c, "publickey"), slot) IN Good(b) /\ b.state = 4
  BY <1>2, <1>3, RefusedKeeps
<1>4. LookForMethod(c, slot, readable) =
          IF "publickey" \notin Untried(c) THEN password(c)
          ELSE IF readable THEN Begin(c, "publickey")
          ELSE password(Refused(Begin(c, "publickey"), slot))
  BY DEF LookForMethod
<1> HIDE DEF password
<1> QED
  BY <1>1, <1>2, <1>3, <1>4

LEMMA StartupKeeps ==
    ASSUME NEW c, Good(c), c.state = 2, NEW answer, NEW slot
    PROVE  /\ Good(Startup(c, answer, slot))
           /\ answer = "stranger" => Fresh(Startup(c, answer, slot))
<1>1. CASE answer = "failed"
  BY <1>1, SlotsKeep, ResetIsGood DEF Startup, Good
<1>2. CASE answer = "known" /\ c.known
  <2> DEFINE d == [c EXCEPT !.state = 3, !.verified = TRUE]
  <2>1. /\ IsClient(d)
        /\ d.state = 3 /\ d.available = c.available /\ d.failed = c.failed
        /\ d.try = c.try /\ d.pass = c.pass /\ d.key = c.key /\ d.sets = c.sets
        /\ d.trying = c.trying /\ d.verified = TRUE /\ d.tried = c.tried
        /\ d.leaked = c.leaked /\ d.repeated = c.repeated
    BY DEF Good, Sound, IsClient, Fields
  <2>2. Startup(c, answer, slot) = d
    BY <1>2 DEF Startup
  <2> HIDE DEF d
  <2>3. c.tried = {}
    BY DEF Good, Settled
  <2>4. Sound(d)
    BY <2>1, <2>3 DEF Good, Sound, Numbers, Trusted, Admitted, Remembered
  <2>5. Settled(d)
    BY <2>1, <2>3 DEF Good, Settled
  <2> QED
    BY <1>2, <2>2, <2>4, <2>5 DEF Good
<1>3. CASE answer = "stranger"
  <2> DEFINE b == Reset(c)
             d == [b EXCEPT !.timers = Append(b.timers, "error")]
  <2>1. Good(b)
    BY ResetIsGood DEF Good
  <2>2. Startup(c, answer, slot) = d
    BY <1>3 DEF Startup
  <2>3. Fresh(b)
    BY ResetIsGood DEF Good
  <2> HIDE DEF b
  <2>4. Good(d) /\ Fresh(d)
    BY <2>1, <2>3, TimersDoNotMatter
  <2> HIDE DEF d
  <2> QED
    BY <2>2, <2>4
<1>4. CASE answer # "failed" /\ ~(answer = "known" /\ c.known) /\ answer # "stranger"
  BY <1>4 DEF Startup
<1> QED
  BY <1>1, <1>2, <1>3, <1>4

\* A slot that does not disconnect leaves the session alone.
LEMMA StayingKeeps ==
    ASSUME NEW c, IsClient(c), NEW reaction, reaction # "leave"
    PROVE  LET d == React(c, reaction) IN
           /\ d.state = c.state /\ d.available = c.available /\ d.tried = c.tried
           /\ d.trying = c.trying /\ d.verified = c.verified /\ d.authenticated = c.authenticated
<1> DEFINE Same(d) == /\ d.state = c.state /\ d.available = c.available /\ d.tried = c.tried
                      /\ d.trying = c.trying /\ d.verified = c.verified
                      /\ d.authenticated = c.authenticated
<1>1. Same(c)
  OBVIOUS
<1>2. Same(SetPassphrase(c))
  BY RenewEffect DEF SetPassphrase, IsClient, Fields
<1>3. Same(SetKeyFiles(c))
  BY RenewEffect DEF SetKeyFiles, IsClient, Fields
<1>4. React(c, reaction) \in {c, SetPassphrase(c), SetKeyFiles(c)}
  BY DEF React
<1> HIDE DEF Same
<1>5. Same(React(c, reaction))
  BY <1>1, <1>2, <1>3, <1>4
<1> QED
  BY <1>5 DEF Same

LEMMA ListKeeps ==
    ASSUME NEW c, Good(c), c.state = 3, NEW answer, NEW methods, NEW slot, NEW readable,
           ~LeftAtOnce(c, answer, slot)
    PROVE  Good(ListMethods(c, answer, methods, slot, readable))
<1>1. c.tried = {} /\ c.trying = FALSE /\ c.verified = TRUE
  BY DEF Good, Sound, Settled, Trusted
<1>2. CASE answer = "failed"
  BY <1>2, SlotsKeep, ResetIsGood DEF ListMethods, Good
<1>3. CASE answer = "none needed"
  <2> DEFINE b == [c EXCEPT !.authenticated = TRUE]
             e == React(b, slot.connected)
             d == [e EXCEPT !.state = 5]
  <2>1. /\ IsClient(b)
        /\ b.state = c.state /\ b.available = c.available /\ b.failed = c.failed
        /\ b.try = c.try /\ b.pass = c.pass /\ b.key = c.key /\ b.sets = c.sets
        /\ b.trying = FALSE /\ b.verified = TRUE /\ b.tried = {} /\ b.authenticated = TRUE
        /\ b.leaked = c.leaked /\ b.repeated = c.repeated
    BY <1>1 DEF Good, Sound, IsClient, Fields
  <2>2. ListMethods(c, answer, methods, slot, readable) = d
    BY <1>3 DEF ListMethods
  <2>3. slot.connected # "leave"
    BY <1>3 DEF LeftAtOnce
  <2> HIDE DEF b
  <2>4. Sound(b)
    BY <2>1 DEF Good, Sound, Numbers, Trusted, Admitted, Remembered
  <2>5. Sound(e) /\ e.verified = TRUE /\ e.authenticated = TRUE /\ e.trying = FALSE /\ e.tried = {}
    BY <2>1, <2>3, <2>4, SlotsKeep, StayingKeeps
  <2> HIDE DEF e
  <2>6. /\ IsClient(d)
        /\ d.state = 5 /\ d.available = e.available /\ d.failed = e.failed
        /\ d.try = e.try /\ d.pass = e.pass /\ d.key = e.key /\ d.sets = e.sets
        /\ d.trying = FALSE /\ d.verified = TRUE /\ d.tried = {} /\ d.authenticated = TRUE
        /\ d.leaked = e.leaked /\ d.repeated = e.repeated
    BY <2>5 DEF Sound, IsClient, Fields
  <2> HIDE DEF d
  <2>7. Sound(d)
    BY <2>5, <2>6 DEF Sound, Numbers, Trusted, Admitted, Remembered
  <2>8. Settled(d)
    BY <2>6 DEF Settled
  <2> QED
    BY <2>2, <2>7, <2>8 DEF Good
<1>4. CASE answer = "list"
  <2> DEFINE d == [c EXCEPT !.state = 4, !.available = @ \cup methods]
  <2>1. /\ IsClient(d)
        /\ d.state = 4 /\ d.failed = c.failed
        /\ d.try = c.try /\ d.pass = c.pass /\ d.key = c.key /\ d.sets = c.sets
        /\ d.trying = FALSE /\ d.verified = TRUE /\ d.tried = {}
        /\ d.leaked = c.leaked /\ d.repeated = c.repeated
    BY <1>1 DEF Good, Sound, IsClient, Fields
  <2>2. ListMethods(c, answer, methods, slot, readable) = LookForMethod(d, slot, readable)
    BY <1>4 DEF ListMethods
  <2> HIDE DEF d
  <2>3. Sound(d)
    BY <2>1 DEF Good, Sound, Numbers, Trusted, Admitted, Remembered
  <2>4. Settled(d)
    BY <2>1 DEF Good, Settled
  <2> QED
    BY <2>1, <2>2, <2>3, <2>4, LookKeeps DEF Good
<1>5. CASE answer \notin {"failed", "none needed", "list"}
  BY <1>5 DEF ListMethods
<1> QED
  BY <1>2, <1>3, <1>4, <1>5

LEMMA AuthenticateKeeps ==
    ASSUME NEW c, Good(c), c.state = 5, NEW answer, NEW slot, NEW readable
    PROVE  Good(Authenticate(c, answer, slot, readable))
<1>1. c.verified = TRUE /\ c.trying \in BOOLEAN
  BY DEF Good, Sound, Settled, Trusted
<1>2. CASE c.try \notin Methods
  <2> DEFINE d == [c EXCEPT !.state = 6]
  <2>1. /\ IsClient(d)
        /\ d.state = 6 /\ d.available = c.available /\ d.failed = c.failed
        /\ d.try = c.try /\ d.pass = c.pass /\ d.key = c.key /\ d.sets = c.sets
        /\ d.trying = c.trying /\ d.verified = TRUE /\ d.tried = c.tried
        /\ d.authenticated = c.authenticated
        /\ d.leaked = c.leaked /\ d.repeated = c.repeated
    BY <1>1 DEF Good, Sound, IsClient, Fields
  <2>2. Authenticate(c, answer, slot, readable) = d
    BY <1>2 DEF Authenticate
  <2> HIDE DEF d
  <2>3. c.authenticated = TRUE
    BY <1>2 DEF Good, Sound, Admitted
  <2>4. Offer(d, "publickey") = Offer(c, "publickey") /\ Offer(d, "password") = Offer(c, "password")
    BY <2>1 DEF Offer
  <2>5. Sound(d)
    BY <2>1, <2>3, <2>4 DEF Good, Sound, Numbers, Trusted, Admitted, Remembered, Methods
  <2>6. Settled(d)
    BY <2>1, <2>4 DEF Good, Settled, Methods
  <2> QED
    BY <2>2, <2>5, <2>6 DEF Good
<1>3. CASE c.try \in Methods /\ c.trying = FALSE
  <2>1. Authenticate(c, answer, slot, readable) = Begin(c, c.try)
    BY <1>3 DEF Authenticate
  <2>2. Good(Begin(c, c.try))
    <3>1. c.tried = {}
      BY <1>3 DEF Good, Settled
    <3>2. Offer(c, c.try) \notin c.tried
      BY <3>1
    <3> QED
      BY <1>1, <1>3, <3>2, BeginKeeps
  <2> QED
    BY <2>1, <2>2
<1>4. CASE c.try \in Methods /\ c.trying = TRUE
  <2>1. CASE answer = "accepted"
    <3> DEFINE d == [c EXCEPT !.state = 6, !.trying = FALSE, !.authenticated = TRUE]
    <3>1. /\ IsClient(d)
          /\ d.state = 6 /\ d.available = c.available /\ d.failed = c.failed
          /\ d.try = c.try /\ d.pass = c.pass /\ d.key = c.key /\ d.sets = c.sets
          /\ d.trying = FALSE /\ d.verified = TRUE /\ d.tried = c.tried
          /\ d.authenticated = TRUE
          /\ d.leaked = c.leaked /\ d.repeated = c.repeated
      BY <1>1 DEF Good, Sound, IsClient, Fields
    <3>2. Authenticate(c, answer, slot, readable) = React(d, slot.connected)
      BY <1>4, <2>1 DEF Authenticate
    <3> HIDE DEF d
    <3>3. Offer(d, "publickey") = Offer(c, "publickey") /\ Offer(d, "password") = Offer(c, "password")
      BY <3>1 DEF Offer
    <3>4. Sound(d)
      BY <3>1, <3>3 DEF Good, Sound, Numbers, Trusted, Admitted, Remembered, Methods
    <3>5. d.trying = FALSE /\ d.state \notin {0, 2, 3, 4, 5}
      BY <3>1
    <3>6. d.trying \in BOOLEAN /\ d.state # 5 /\ d.state \notin {4, 5} /\ d.state \notin {0, 2, 3}
      BY <3>5, Zenon
    <3>7. Settled(d)
      BY <3>5, <3>6, Zenon DEF Settled
    <3> QED
      BY <3>2, <3>4, <3>7, SlotsKeep DEF Good
  <2>2. CASE answer = "refused"
    BY <1>4, <2>2, RefusedKeeps, LookKeeps DEF Authenticate
  <2>3. CASE answer \notin {"accepted", "refused"}
    BY <1>4, <2>3 DEF Authenticate
  <2> QED
    BY <2>1, <2>2, <2>3
<1> QED
  BY <1>1, <1>2, <1>3, <1>4

LEMMA ReadyReadKeeps ==
    ASSUME NEW c, Good(c), NEW answer, NEW methods, NEW slot, NEW readable,
           ~LeftAtOnce(c, answer, slot)
    PROVE  LET d == ClientReadyRead(c, answer, methods, slot, readable) IN
           /\ Good(d)
           /\ Fresh(c) => Fresh(d)
           /\ c.state = 2 /\ answer = "stranger" => Fresh(d)
<1>1. CASE c.state = 2
  <2>1. ~Fresh(c)
    BY <1>1 DEF Fresh
  <2> QED
    BY <1>1, <2>1, StartupKeeps DEF ClientReadyRead
<1>2. CASE c.state = 3
  BY <1>2, ListKeeps DEF ClientReadyRead, Fresh
<1>3. CASE c.state = 4
  BY <1>3, LookKeeps DEF ClientReadyRead, Fresh
<1>4. CASE c.state = 5
  BY <1>4, AuthenticateKeeps DEF ClientReadyRead, Fresh
<1>5. CASE c.state \notin {2, 3, 4, 5}
  BY <1>5 DEF ClientReadyRead
<1> QED
  BY <1>1, <1>2, <1>3, <1>4, <1>5

-----------------------------------------------------------------------------
(* The steps.                                                              *)

LEMMA InitHeld == Init => Held
<1> SUFFICES ASSUME Init
             PROVE  Held
  OBVIOUS
<1>1. /\ IsClient(client)
      /\ client.state = 0 /\ client.available = {} /\ client.failed = {}
      /\ client.pass = 0 /\ client.key = 0 /\ client.sets = 0
      /\ client.trying = FALSE /\ client.tried = {}
      /\ client.leaked = FALSE /\ client.repeated = FALSE
  BY DEF Init, IsClient, Fields
<1>2. Numbers(client)
  BY <1>1 DEF Numbers
<1>3. Trusted(client) /\ Admitted(client) /\ Remembered(client)
  BY <1>1 DEF Trusted, Admitted, Remembered
<1>4. Settled(client) /\ Fresh(client)
  BY <1>1 DEF Settled, Fresh
<1> QED
  BY <1>2, <1>3, <1>4, <1>1 DEF Held, Good, Sound

LEMMA BecomeKeeps ==
    ASSUME NEW c, Good(c), NEW timers, Become(c, timers)
    PROVE  Good(client') /\ (Fresh(c) => Fresh(client'))
BY TimersDoNotMatter DEF Become

LEMMA RunKeeps ==
    ASSUME Held, NEW timers, RunReadyRead(timers), left' = FALSE
    PROVE  Held'
<1>1. PICK answer, methods, slot, readable :
           /\ Become(ClientReadyRead(client, answer, methods, slot, readable), timers)
           /\ tcp' \in IF client.state = 2 /\ answer = "stranger" THEN {tcp, "closed"} ELSE {tcp}
           /\ left' = (left \/ LeftAtOnce(client, answer, slot))
  BY DEF RunReadyRead
<1> DEFINE d == ClientReadyRead(client, answer, methods, slot, readable)
<1>2. /\ Good(d)
      /\ Fresh(client) => Fresh(d)
      /\ client.state = 2 /\ answer = "stranger" => Fresh(d)
  BY <1>1, ReadyReadKeeps DEF Held
<1> HIDE DEF d
<1>3. Good(client') /\ (Fresh(d) => Fresh(client'))
  BY <1>1, <1>2, BecomeKeeps DEF d
<1>4. ASSUME tcp' # "open"
      PROVE  Fresh(client')
  BY <1>1, <1>2, <1>3, <1>4 DEF Held
<1> QED
  BY <1>3, <1>4 DEF Held, Good, Sound, Settled, Fresh, IsClient, Numbers, Trusted, Admitted, Remembered, Offer

LEMMA InvNext ==
    ASSUME Good(client'), tcp' # "open" => Fresh(client')
    PROVE  Held'
BY DEF Held, Good, Sound, Settled, Fresh, IsClient, Numbers, Trusted, Admitted, Remembered, Offer

LEMMA SlotKeeps ==
    ASSUME Held, NEW reaction, NEW timers, Become(React(client, reaction), timers), UNCHANGED tcp
    PROVE  Held'
<1>1. Good(React(client, reaction)) /\ (Fresh(client) => Fresh(React(client, reaction)))
  BY SlotsKeep DEF Held, Good
<1>2. Good(client') /\ (Fresh(React(client, reaction)) => Fresh(client'))
  BY <1>1, BecomeKeeps
<1> QED
  BY <1>1, <1>2, InvNext DEF Held

LEMMA KnownKeeps ==
    ASSUME NEW c, Good(c)
    PROVE  LET d == [c EXCEPT !.known = TRUE] IN Good(d) /\ (Fresh(c) => Fresh(d))
<1> DEFINE d == [c EXCEPT !.known = TRUE]
<1>1. Alike(c, d) /\ d.trying = c.trying
  BY DEF Good, Sound, Alike, IsClient, Fields
<1> HIDE DEF d
<1> QED
  BY <1>1, AlikeKeeps DEF Good, d

\* A connection is attempted, or made: the state is set, the rest stays.
LEMMA StateSet ==
    ASSUME NEW c, Good(c), NEW n \in {1, 2}, n = 2 => Fresh(c)
    PROVE  LET d == [c EXCEPT !.state = n] IN Good(d) /\ (n = 1 /\ Fresh(c) => Fresh(d))
<1> DEFINE d == [c EXCEPT !.state = n]
<1>1. /\ IsClient(d)
      /\ d.state = n /\ d.available = c.available /\ d.failed = c.failed
      /\ d.try = c.try /\ d.pass = c.pass /\ d.key = c.key /\ d.sets = c.sets
      /\ d.trying = c.trying /\ d.verified = c.verified
      /\ d.authenticated = c.authenticated /\ d.tried = c.tried
      /\ d.leaked = c.leaked /\ d.repeated = c.repeated
  BY DEF Good, Sound, IsClient, Fields
<1> HIDE DEF d
<1>2. Offer(d, "publickey") = Offer(c, "publickey") /\ Offer(d, "password") = Offer(c, "password")
  BY <1>1 DEF Offer
<1>3. Sound(d)
  BY <1>1, <1>2 DEF Good, Sound, Numbers, Trusted, Admitted, Remembered, Methods
<1>4. Settled(d)
  BY <1>1 DEF Good, Settled, Fresh
<1>5. n = 1 /\ Fresh(c) => Fresh(d)
  BY <1>1 DEF Fresh
<1> QED
  BY <1>3, <1>4, <1>5 DEF Good, d

\* "left" is never taken back, and while it is FALSE nothing else is lost.
LEMMA HeldStays ==
    ASSUME Held, [Next]_vars, left' = FALSE
    PROVE  Held'
<1>1. CASE DataArrives
  BY <1>1, RunKeeps DEF DataArrives
<1>2. CASE TimerFires
  <2>1. CASE RunReadyRead(Tail(posted))
    BY <2>1, RunKeeps
  <2>2. ASSUME NEW reaction \in Reactions, Become(React(client, reaction), Tail(posted)), UNCHANGED tcp
        PROVE  Held'
    BY <2>2, SlotKeeps
  <2> QED
    BY <1>2, <2>1, <2>2 DEF TimerFires
<1>3. CASE ConnectToHost
  <2>1. Good(client') /\ (Fresh(client) => Fresh(client'))
    <3>1. Good(client) /\ client' = [client EXCEPT !.state = 1]
      BY <1>3 DEF ConnectToHost, Held
    <3>2. 1 \in {1, 2} /\ 1 # 2
      OBVIOUS
    <3> QED
      BY <3>1, <3>2, StateSet
  <2>2. tcp' # "open" => tcp # "open"
    BY <1>3 DEF ConnectToHost
  <2> QED
    BY <2>1, <2>2, InvNext DEF Held
<1>4. CASE Connected
  <2>1. Good(client') /\ tcp' = "open"
    BY <1>4, StateSet DEF Connected, Held
  <2> QED
    BY <2>1, InvNext
<1>5. CASE ConnectionFails
  BY <1>5 DEF ConnectionFails, Held
<1>6. CASE ConnectionIsLost
  <2>1. /\ Good(client) /\ Become(IF client.state = 0 THEN client ELSE Reset(client), posted)
    BY <1>6 DEF ConnectionIsLost, Held
  <2>2. ASSUME client.state = 0
        PROVE  Fresh(client)
    BY <2>1, <2>2 DEF Good, Settled, Fresh
  <2>3. Good(client') /\ Fresh(client')
    BY <2>1, <2>2, ResetIsGood, BecomeKeeps DEF Good
  <2> QED
    BY <2>3, InvNext
<1>7. CASE Configure
  <2>1. ASSUME NEW reaction \in Reactions, Become(React(client, reaction), posted)
        PROVE  Held'
    BY <1>7, <2>1, SlotKeeps DEF Configure
  <2>2. ASSUME Become([client EXCEPT !.known = TRUE], posted)
        PROVE  Held'
    <3>1. Good(client) /\ (tcp # "open" => Fresh(client)) /\ tcp' = tcp
      BY <1>7 DEF Configure, Held
    <3>2. Good(client') /\ (Fresh(client) => Fresh(client'))
      BY <2>2, <3>1, KnownKeeps, BecomeKeeps
    <3> QED
      BY <3>1, <3>2, InvNext
  <2> QED
    BY <1>7, <2>1, <2>2 DEF Configure
<1>8. CASE UNCHANGED <<client, tcp>>
  BY <1>8 DEF Held
<1> QED
  BY <1>1, <1>2, <1>3, <1>4, <1>5, <1>6, <1>7, <1>8
     DEF Next, OpenChannel, AskChannel, DeleteChannel, vars

LEMMA InitGood == Init => SshInv
BY InitHeld DEF SshInv, Init

LEMMA StepGood == SshInv /\ [Next]_vars => SshInv'
<1> SUFFICES ASSUME SshInv, [Next]_vars
             PROVE  SshInv'
  OBVIOUS
<1>1. ASSUME NEW timers, RunReadyRead(timers)
      PROVE  \E b \in BOOLEAN : left' = (left \/ b)
  <2>1. PICK answer, slot : left' = (left \/ LeftAtOnce(client, answer, slot))
    BY <1>1 DEF RunReadyRead
  <2>2. LeftAtOnce(client, answer, slot) \in BOOLEAN
    BY DEF LeftAtOnce
  <2> QED
    BY <2>1, <2>2
<1>2. left' = left \/ \E b \in BOOLEAN : left' = (left \/ b)
  BY <1>1 DEF Next, DataArrives, TimerFires, ConnectToHost, Connected, ConnectionFails,
     ConnectionIsLost, Configure, OpenChannel, AskChannel, DeleteChannel, vars
<1>3. left' \in BOOLEAN /\ (left' = FALSE => left = FALSE)
  BY <1>2 DEF SshInv
<1>4. left' = FALSE => Held'
  BY <1>3, HeldStays DEF SshInv
<1> QED
  BY <1>3, <1>4 DEF SshInv

LEMMA GoodEnough ==
    ASSUME SshInv
    PROVE  SecretsGoToKnownHosts /\ RefusedIsNotRepeated /\ ReadyMeansAuthenticated
<1>1. CASE left = FALSE
  BY <1>1 DEF SshInv, Held, Good, Sound, Trusted, Remembered, Admitted,
     SecretsGoToKnownHosts, RefusedIsNotRepeated, ReadyMeansAuthenticated
<1>2. CASE left = TRUE
  BY <1>2 DEF SecretsGoToKnownHosts, RefusedIsNotRepeated, ReadyMeansAuthenticated
<1> QED
  BY <1>1, <1>2 DEF SshInv

\* Passwords and keys are sent only to a server whose host key was found among
\* the known hosts in this session, however slots interfere.
THEOREM SecretsStayWithKnownHosts == Spec => []SecretsGoToKnownHosts
<1>1. Init => SshInv
  BY InitGood
<1>2. SshInv /\ [Next]_vars => SshInv'
  BY StepGood
<1>3. SshInv => SecretsGoToKnownHosts
  BY GoodEnough
<1> QED
  BY <1>1, <1>2, <1>3, PTL DEF Spec

\* A password or key that was refused is not offered to the same server again.
THEOREM RefusalsAreRespected == Spec => []RefusedIsNotRepeated
<1>1. Init => SshInv
  BY InitGood
<1>2. SshInv /\ [Next]_vars => SshInv'
  BY StepGood
<1>3. SshInv => RefusedIsNotRepeated
  BY GoodEnough
<1> QED
  BY <1>1, <1>2, <1>3, PTL DEF Spec

\* In the state in which channels can be opened the user is authenticated, even
\* by way of the state that a server which needs no authentication leads to.
THEOREM ReadyIsAuthenticated == Spec => []ReadyMeansAuthenticated
<1>1. Init => SshInv
  BY InitGood
<1>2. SshInv /\ [Next]_vars => SshInv'
  BY StepGood
<1>3. SshInv => ReadyMeansAuthenticated
  BY GoodEnough
<1> QED
  BY <1>1, <1>2, <1>3, PTL DEF Spec

-----------------------------------------------------------------------------
(* Credentials that are used.  What was noted as failed was offered to the *)
(* server as it is now, unless it was changed during the try; and who sets *)
(* something in state 4 starts a timer.                                    *)

Names == {"readyRead", "error"}

Offered(c, ms) ==
    \A m \in (c.available \cap ms) \ c.late : HasCredentials(c, m) => Offer(c, m) \in c.tried

\* What slots find and keep.
Diligent(c) ==
    /\ IsClient(c)
    /\ c.available \subseteq Methods /\ c.rash = FALSE /\ c.trying \in BOOLEAN
    /\ c.timers \in Seq(Names)
    /\ Offered(c, c.failed)

Tidy(c) ==
    /\ c.state \in {0, 2, 3} => c.failed = {} /\ c.trying = FALSE
    /\ c.state = 5 /\ c.trying = TRUE => Offered(c, {c.try})

\* Nothing failed yet, for want of a connection.
Blank(c) == c.state \in {0, 1} /\ c.failed = {} /\ c.trying = FALSE

Unused(c) == c.state = 4 /\ Untried(c) # {}

UseInv ==
    /\ Diligent(client) /\ Tidy(client)
    /\ tcp # "open" => Blank(client)
    /\ client.timers = <<>> /\ posted \in Seq(Names)
    /\ Unused(client) => "readyRead" \in Range(posted)

LEMMA Elements ==
    ASSUME NEW T, NEW s \in Seq(T), NEW e \in T
    PROVE  /\ Append(s, e) \in Seq(T) /\ Range(Append(s, e)) = Range(s) \cup {e}
           /\ s # <<>> => Tail(s) \in Seq(T) /\ Range(s) \subseteq Range(Tail(s)) \cup {Head(s)}
<1>1. DOMAIN s = 1 .. Len(s) /\ Len(s) \in Nat
  OBVIOUS
<1>2. /\ Append(s, e) \in Seq(T) /\ DOMAIN Append(s, e) = 1 .. Len(s) + 1
      /\ \A i \in 1 .. Len(s) : Append(s, e)[i] = s[i]
      /\ Append(s, e)[Len(s) + 1] = e
  OBVIOUS
<1>3. Range(Append(s, e)) = Range(s) \cup {e}
  <2>1. \A i \in 1 .. Len(s) + 1 : i \in 1 .. Len(s) \/ i = Len(s) + 1
    BY <1>1
  <2> QED
    BY <1>1, <1>2, <2>1 DEF Range
<1>4. ASSUME s # <<>>
      PROVE  Tail(s) \in Seq(T) /\ Range(s) \subseteq Range(Tail(s)) \cup {Head(s)}
  <2>1. /\ Tail(s) \in Seq(T) /\ DOMAIN Tail(s) = 1 .. Len(s) - 1 /\ Head(s) = s[1]
        /\ \A i \in 1 .. Len(s) - 1 : Tail(s)[i] = s[i + 1]
    BY <1>4
  <2>2. \A i \in 1 .. Len(s) : i = 1 \/ (i - 1 \in 1 .. Len(s) - 1 /\ s[i] = Tail(s)[i - 1])
    BY <1>1, <2>1
  <2>3. ASSUME NEW x \in Range(s)
        PROVE  x \in Range(Tail(s)) \cup {Head(s)}
    <3>1. PICK i \in 1 .. Len(s) : x = s[i]
      BY <1>1 DEF Range
    <3>2. CASE i = 1
      BY <2>1, <3>1, <3>2
    <3>3. CASE i # 1
      <4>1. i - 1 \in DOMAIN Tail(s) /\ x = Tail(s)[i - 1]
        BY <2>1, <2>2, <3>1, <3>3
      <4> QED
        BY <4>1 DEF Range
    <3> QED
      BY <3>2, <3>3
  <2> QED
    BY <2>1, <2>3
<1> QED
  BY <1>2, <1>3, <1>4

LEMMA Joint ==
    ASSUME NEW T, NEW s \in Seq(T), NEW t \in Seq(T)
    PROVE  s \o t \in Seq(T) /\ Range(s) \subseteq Range(s \o t) /\ Range(t) \subseteq Range(s \o t)
<1>1. /\ s \o t \in Seq(T) /\ DOMAIN (s \o t) = 1 .. Len(s) + Len(t)
      /\ DOMAIN s = 1 .. Len(s) /\ DOMAIN t = 1 .. Len(t) /\ Len(s) \in Nat /\ Len(t) \in Nat
  OBVIOUS
<1>2. \A i \in 1 .. Len(s) : (s \o t)[i] = s[i] /\ i \in 1 .. Len(s) + Len(t)
  BY <1>1
<1>3. \A i \in 1 .. Len(t) : (s \o t)[Len(s) + i] = t[i] /\ Len(s) + i \in 1 .. Len(s) + Len(t)
  BY <1>1
<1> QED
  BY <1>1, <1>2, <1>3 DEF Range

LEMMA RenewNotes ==
    ASSUME NEW c, IsClient(c), NEW ms
    PROVE  LET d == Renew(c, ms) IN
           /\ d.timers = IF c.state > 1 THEN Append(c.timers, "readyRead") ELSE c.timers
           /\ d.late = IF c.state = 5 THEN c.late \cup ms ELSE c.late \ ms
           /\ d.rash = c.rash
BY DEF IsClient, Renew, StartTimer, Fields

\* A slot that sets credentials, of the methods ms.
Sets(c, d, ms) ==
    /\ IsClient(d)
    /\ d.state = c.state /\ d.available = c.available /\ d.failed = c.failed \ ms
    /\ d.try = c.try /\ d.trying = c.trying /\ d.tried = c.tried /\ d.rash = c.rash
    /\ d.timers = IF c.state > 1 THEN Append(c.timers, "readyRead") ELSE c.timers
    /\ d.late = IF c.state = 5 THEN c.late \cup ms ELSE c.late \ ms
    /\ \A m \in Methods \ ms : Offer(d, m) = Offer(c, m) /\ (HasCredentials(d, m) <=> HasCredentials(c, m))

LEMMA SettersSet ==
    ASSUME NEW c, IsClient(c)
    PROVE  Sets(c, SetPassphrase(c), Methods) /\ Sets(c, SetKeyFiles(c), {"publickey"})
<1>1. Sets(c, SetPassphrase(c), Methods)
  <2> DEFINE d == SetPassphrase(c)
             r == Renew(c, Methods)
  <2>1. d = [r EXCEPT !.pass = c.sets + 1]
    BY DEF SetPassphrase
  <2>2. /\ IsClient(r) /\ r.state = c.state /\ r.available = c.available /\ r.failed = c.failed \ Methods
        /\ r.try = c.try /\ r.trying = c.trying /\ r.tried = c.tried /\ r.pass = c.pass
        /\ r.timers = IF c.state > 1 THEN Append(c.timers, "readyRead") ELSE c.timers
        /\ r.late = IF c.state = 5 THEN c.late \cup Methods ELSE c.late \ Methods
        /\ r.rash = c.rash
    <3>1. /\ IsClient(r) /\ r.state = c.state /\ r.available = c.available /\ r.failed = c.failed \ Methods
          /\ r.try = c.try /\ r.trying = c.trying /\ r.tried = c.tried /\ r.pass = c.pass
      BY RenewEffect
    <3>2. /\ r.timers = IF c.state > 1 THEN Append(c.timers, "readyRead") ELSE c.timers
          /\ r.late = IF c.state = 5 THEN c.late \cup Methods ELSE c.late \ Methods
          /\ r.rash = c.rash
      BY RenewNotes
    <3> QED
      BY <3>1, <3>2
  <2> HIDE DEF r
  <2>3. /\ IsClient(d) /\ d.state = r.state /\ d.available = r.available /\ d.failed = r.failed
        /\ d.try = r.try /\ d.trying = r.trying /\ d.tried = r.tried /\ d.rash = r.rash
        /\ d.timers = r.timers /\ d.late = r.late
    BY <2>1, <2>2 DEF IsClient, Fields
  <2>4. Methods \ Methods = {}
    OBVIOUS
  <2>5. Sets(c, d, Methods)
    <3> HIDE DEF d
    <3> QED
      BY <2>2, <2>3, <2>4 DEF Sets
  <2> QED
    BY <2>5
<1>2. Sets(c, SetKeyFiles(c), {"publickey"})
  <2> DEFINE d == SetKeyFiles(c)
             r == Renew(c, {"publickey"})
  <2>1. d = [r EXCEPT !.key = c.sets + 1]
    BY DEF SetKeyFiles
  <2>2. /\ IsClient(r) /\ r.state = c.state /\ r.available = c.available /\ r.failed = c.failed \ {"publickey"}
        /\ r.try = c.try /\ r.trying = c.trying /\ r.tried = c.tried /\ r.pass = c.pass
        /\ r.timers = IF c.state > 1 THEN Append(c.timers, "readyRead") ELSE c.timers
        /\ r.late = IF c.state = 5 THEN c.late \cup {"publickey"} ELSE c.late \ {"publickey"}
        /\ r.rash = c.rash
    <3>1. /\ IsClient(r) /\ r.state = c.state /\ r.available = c.available /\ r.failed = c.failed \ {"publickey"}
          /\ r.try = c.try /\ r.trying = c.trying /\ r.tried = c.tried /\ r.pass = c.pass
      BY RenewEffect
    <3>2. /\ r.timers = IF c.state > 1 THEN Append(c.timers, "readyRead") ELSE c.timers
          /\ r.late = IF c.state = 5 THEN c.late \cup {"publickey"} ELSE c.late \ {"publickey"}
          /\ r.rash = c.rash
      BY RenewNotes
    <3> QED
      BY <3>1, <3>2
  <2> HIDE DEF r
  <2>3. /\ IsClient(d) /\ d.state = r.state /\ d.available = r.available /\ d.failed = r.failed
        /\ d.try = r.try /\ d.trying = r.trying /\ d.tried = r.tried /\ d.rash = r.rash
        /\ d.timers = r.timers /\ d.late = r.late /\ d.pass = c.pass
    BY <2>1, <2>2 DEF IsClient, Fields
  <2>4. \A m \in Methods \ {"publickey"} : Offer(d, m) = Offer(c, m) /\ (HasCredentials(d, m) <=> HasCredentials(c, m))
    <3> HIDE DEF d
    <3> QED
      BY <2>3 DEF Offer, HasCredentials, Methods
  <2>5. Sets(c, d, {"publickey"})
    <3> HIDE DEF d
    <3> QED
      BY <2>2, <2>3, <2>4 DEF Sets
  <2> QED
    BY <2>5
<1> QED
  BY <1>1, <1>2

\* What a slot leaves of a client.
Handled(c, d) ==
    /\ Diligent(d) /\ d.try = c.try /\ (c.trying = FALSE => d.trying = FALSE)
    /\ d.failed \subseteq c.failed
    /\ d.state = c.state \/ (d.state = 0 /\ d.failed = {} /\ d.trying = FALSE)
    /\ c.state = 5 /\ Offered(c, {c.try}) => Offered(d, {d.try})
    /\ c.state = 4 => \/ d.state = 0 \/ "readyRead" \in Range(d.timers)
                      \/ Untried(d) = Untried(c) /\ Range(d.timers) = Range(c.timers)

LEMMA SettersHandle ==
    ASSUME NEW c, Diligent(c), NEW d, NEW ms \in SUBSET Methods, Sets(c, d, ms)
    PROVE  Handled(c, d)
<1>1. ASSUME NEW ns \in SUBSET Methods, Offered(c, ns), c.state # 5 => ns \subseteq c.failed
      PROVE  Offered(d, IF c.state = 5 THEN ns ELSE ns \ ms)
  BY <1>1 DEF Offered, Diligent, Sets
<1>2. Offered(d, d.failed)
  <2>1. Offered(d, c.failed \ ms)
    BY DEF Offered, Diligent, Sets
  <2> QED
    BY <2>1 DEF Sets
<1>3. d.timers \in Seq(Names)
  BY Elements DEF Sets, Diligent, Names
<1>4. c.state = 5 /\ Offered(c, {c.try}) => Offered(d, {d.try})
  BY DEF Offered, Sets, Diligent
<1>5. c.state = 4 => "readyRead" \in Range(d.timers)
  <2> SUFFICES ASSUME c.state = 4
               PROVE  "readyRead" \in Range(d.timers)
    OBVIOUS
  <2>1. d.timers = Append(c.timers, "readyRead")
    BY DEF Sets
  <2> QED
    BY <2>1, Elements DEF Diligent, Names
<1>6. Diligent(d)
  BY <1>2, <1>3 DEF Diligent, Sets
<1> QED
  BY <1>4, <1>5, <1>6 DEF Handled, Sets

LEMMA ResetHandles ==
    ASSUME NEW c, Diligent(c)
    PROVE  /\ Handled(c, Reset(c)) /\ Reset(c).state = 0 /\ Reset(c).failed = {} /\ Reset(c).trying = FALSE
<1> DEFINE d == Reset(c)
<1>1. /\ IsClient(d) /\ d.state = 0 /\ d.available = {} /\ d.failed = {} /\ d.try = c.try
      /\ d.trying = FALSE /\ d.rash = c.rash /\ d.timers = c.timers
  BY DEF Diligent, IsClient, Reset, Fields
<1> HIDE DEF d
<1>2. \A ms : Offered(d, ms)
  BY <1>1 DEF Offered
<1>3. Diligent(d)
  BY <1>1, <1>2 DEF Diligent
<1>4. Handled(c, d)
  BY <1>1, <1>2, <1>3 DEF Handled
<1> QED
  BY <1>1, <1>4 DEF d

LEMMA SlotsHandle ==
    ASSUME NEW c, Diligent(c), NEW reaction
    PROVE  Handled(c, React(c, reaction))
<1>1. CASE React(c, reaction) = c
  BY <1>1 DEF Handled
<1>2. CASE React(c, reaction) = SetPassphrase(c)
  BY <1>2, SettersSet, SettersHandle DEF Diligent
<1>3. CASE React(c, reaction) = SetKeyFiles(c)
  <2>1. {"publickey"} \in SUBSET Methods
    BY DEF Methods
  <2> QED
    BY <1>3, <2>1, SettersSet, SettersHandle DEF Diligent
<1>4. CASE React(c, reaction) = Reset(c)
  BY <1>4, ResetHandles
<1> QED
  BY <1>1, <1>2, <1>3, <1>4 DEF React

LEMMA HandledIsTidy ==
    ASSUME NEW c, NEW d, Diligent(c), Tidy(c), Handled(c, d)
    PROVE  Tidy(d) /\ (Blank(c) => Blank(d))
<1>1. c.trying \in BOOLEAN
  BY DEF Diligent
<1>2. CASE d.state = c.state
  BY <1>1, <1>2 DEF Handled, Tidy, Blank
<1>3. CASE d.state = 0 /\ d.failed = {} /\ d.trying = FALSE
  BY <1>3 DEF Tidy, Blank
<1> QED
  BY <1>2, <1>3 DEF Handled

\* What a call of d_readyRead() leaves: credentials in state 4 that were not
\* tried come with a timer.
Thorough(d) == Diligent(d) /\ Tidy(d) /\ (Unused(d) => "readyRead" \in Range(d.timers))

\* Only the state and what else belongs to the session changes.
SameCredentials(c, d) ==
    /\ IsClient(d)
    /\ d.failed = c.failed /\ d.pass = c.pass /\ d.key = c.key /\ d.rash = c.rash
    /\ d.timers = c.timers /\ d.late = c.late

LEMMA StaysDiligent ==
    ASSUME NEW c, NEW d, Diligent(c), SameCredentials(c, d), d.trying \in BOOLEAN,
           d.available \subseteq Methods, d.available = c.available \/ c.failed = {},
           c.tried \subseteq d.tried
    PROVE  Diligent(d)
<1>1. \A m \in Methods : Offer(d, m) = Offer(c, m) /\ (HasCredentials(d, m) <=> HasCredentials(c, m))
  BY DEF SameCredentials, Offer, HasCredentials
<1>2. Offered(d, d.failed)
  BY <1>1 DEF Offered, Diligent, SameCredentials
<1> QED
  BY <1>2 DEF Diligent, SameCredentials

LEMMA BeginIsThorough ==
    ASSUME NEW c, Diligent(c), NEW m
    PROVE  LET d == Begin(c, m) IN
           /\ Thorough(d) /\ d.state = 5 /\ d.try = m /\ Offered(d, {d.try})
<1> DEFINE d == Begin(c, m)
<1>1. /\ SameCredentials(c, d) /\ d.state = 5 /\ d.try = m /\ d.trying = TRUE
      /\ d.available = c.available /\ d.tried = c.tried \cup {Offer(c, m)}
  BY DEF Diligent, IsClient, Begin, SameCredentials, Fields
<1> HIDE DEF d
<1>2. Diligent(d)
  BY <1>1, StaysDiligent DEF Diligent
<1>3. Offer(d, m) = Offer(c, m)
  BY <1>1 DEF SameCredentials, Offer
<1>4. Offered(d, {d.try})
  BY <1>1, <1>3 DEF Offered
<1>5. Tidy(d) /\ ~Unused(d)
  BY <1>1, <1>4 DEF Tidy, Unused
<1> QED
  BY <1>1, <1>2, <1>4, <1>5 DEF Thorough, d

LEMMA RefusedIsNoted ==
    ASSUME NEW c, Diligent(c), c.state = 5, Offered(c, {c.try}), NEW slot
    PROVE  LET d == Refused(c, slot) IN
           Diligent(d) /\ d.state = 4 /\ c.try \in d.failed
<1> DEFINE b == [c EXCEPT !.trying = FALSE]
           e == React(b, slot.error)
           d == Refused(c, slot)
<1>1. /\ SameCredentials(c, b) /\ b.state = 5 /\ b.try = c.try /\ b.trying = FALSE
      /\ b.available = c.available /\ b.tried = c.tried
  BY DEF Diligent, IsClient, SameCredentials, Fields
<1>2. d = [e EXCEPT !.failed = @ \cup {c.try}, !.state = 4]
  BY DEF Refused
<1> HIDE DEF b
<1>3. Diligent(b)
  BY <1>1, StaysDiligent DEF Diligent
<1>4. Offered(b, {b.try})
  BY <1>1 DEF Offered, SameCredentials, Offer, HasCredentials
<1>5. Diligent(e) /\ e.try = c.try /\ Offered(e, {e.try})
  BY <1>1, <1>3, <1>4, SlotsHandle DEF Handled
<1> HIDE DEF e, d
<1>6. /\ IsClient(d) /\ d.state = 4 /\ d.failed = e.failed \cup {e.try}
      /\ d.available = e.available /\ d.trying = e.trying /\ d.pass = e.pass /\ d.key = e.key
      /\ d.tried = e.tried /\ d.late = e.late /\ d.rash = e.rash /\ d.timers = e.timers
  BY <1>2, <1>5 DEF Diligent, IsClient, Fields
<1>7. \A m \in Methods : Offer(d, m) = Offer(e, m) /\ (HasCredentials(d, m) <=> HasCredentials(e, m))
  BY <1>6 DEF Offer, HasCredentials
<1>8. Offered(d, d.failed)
  BY <1>5, <1>6, <1>7 DEF Offered, Diligent
<1>9. Diligent(d) /\ d.state = 4 /\ c.try \in d.failed
  BY <1>5, <1>6, <1>8 DEF Diligent
<1> QED
  BY <1>9 DEF d

LEMMA RequiredIsThorough ==
    ASSUME NEW c, Diligent(c), c.state = 4, Untried(c) = {}, NEW slot
    PROVE  Thorough(AuthenticationRequired(c, slot))
<1> DEFINE rash == \E m \in c.available \ c.late : HasCredentials(c, m) /\ Offer(c, m) \notin c.tried
           b == [c EXCEPT !.rash = @ \/ rash]
           d == React(b, slot.required)
<1>1. rash = FALSE
  BY DEF Untried, Diligent, Offered
<1>3. AuthenticationRequired(c, slot) = d
  BY DEF AuthenticationRequired
<1> HIDE DEF rash
<1>4. /\ SameCredentials(c, b) /\ b.state = 4 /\ b.trying = c.trying
      /\ b.available = c.available /\ b.tried = c.tried
  BY <1>1 DEF Diligent, IsClient, SameCredentials, Fields
<1> HIDE DEF b
<1>5. Diligent(b)
  BY <1>4, StaysDiligent DEF Diligent
<1>6. Untried(b) = {}
  BY <1>4 DEF Untried, SameCredentials, HasCredentials
<1>7. Handled(b, d)
  BY <1>5, SlotsHandle
<1>8. Tidy(b)
  BY <1>4 DEF Tidy
<1> HIDE DEF d
<1>9. Tidy(d)
  BY <1>5, <1>7, <1>8, HandledIsTidy
<1>10. Unused(d) => "readyRead" \in Range(d.timers)
  BY <1>4, <1>6, <1>7 DEF Handled, Unused
<1> QED
  BY <1>3, <1>7, <1>9, <1>10 DEF Thorough, Handled

LEMMA LookIsThorough ==
    ASSUME NEW c, Diligent(c), c.state = 4, NEW slot, NEW readable
    PROVE  Thorough(LookForMethod(c, slot, readable))
<1> DEFINE password(b) == IF "password" \in Untried(b) THEN Begin(b, "password")
                          ELSE AuthenticationRequired(b, slot)
<1>1. ASSUME NEW b, Diligent(b), b.state = 4, "publickey" \notin Untried(b)
      PROVE  Thorough(password(b))
  <2>1. CASE "password" \in Untried(b)
    BY <1>1, <2>1, BeginIsThorough
  <2>2. CASE "password" \notin Untried(b)
    <3>1. Untried(b) = {}
      BY <1>1, <2>2 DEF Untried, Diligent, Methods
    <3> QED
      BY <1>1, <2>2, <3>1, RequiredIsThorough
  <2> QED
    BY <2>1, <2>2
<1>2. Thorough(Begin(c, "publickey"))
  BY BeginIsThorough
<1>3. LET b == Refused(Begin(c, "publickey"), slot) IN
      Diligent(b) /\ b.state = 4 /\ "publickey" \notin Untried(b)
  <2> DEFINE a == Begin(c, "publickey")
             b == Refused(a, slot)
  <2>1. Diligent(a) /\ a.state = 5 /\ a.try = "publickey" /\ Offered(a, {a.try})
    BY BeginIsThorough DEF Thorough
  <2> HIDE DEF a
  <2>2. Diligent(b) /\ b.state = 4 /\ "publickey" \in b.failed
    BY <2>1, RefusedIsNoted
  <2> HIDE DEF b
  <2>3. "publickey" \notin Untried(b)
    BY <2>2 DEF Untried
  <2> QED
    BY <2>2, <2>3 DEF a, b
<1>4. LookForMethod(c, slot, readable) =
          IF "publickey" \notin Untried(c) THEN password(c)
          ELSE IF readable THEN Begin(c, "publickey")
          ELSE password(Refused(Begin(c, "publickey"), slot))
  BY DEF LookForMethod
<1> HIDE DEF password
<1> QED
  BY <1>1, <1>2, <1>3, <1>4

LEMMA ResetIsThorough ==
    ASSUME NEW c, Diligent(c)
    PROVE  Thorough(Reset(c)) /\ Blank(Reset(c))
<1> DEFINE d == Reset(c)
<1>1. Diligent(d) /\ d.state = 0 /\ d.failed = {} /\ d.trying = FALSE
  BY ResetHandles DEF Handled
<1> HIDE DEF d
<1>2. Thorough(d) /\ Blank(d)
  BY <1>1 DEF Thorough, Tidy, Blank, Unused
<1> QED
  BY <1>2 DEF d

LEMMA StartupIsThorough ==
    ASSUME NEW c, Diligent(c), Tidy(c), c.state = 2, NEW answer, NEW slot
    PROVE  /\ Thorough(Startup(c, answer, slot))
           /\ answer = "stranger" => Blank(Startup(c, answer, slot))
<1>1. CASE answer = "failed"
  BY <1>1, SlotsHandle, ResetIsThorough DEF Startup, Handled
<1>2. CASE answer = "known" /\ c.known
  <2> DEFINE d == [c EXCEPT !.state = 3, !.verified = TRUE]
  <2>1. /\ SameCredentials(c, d) /\ d.state = 3 /\ d.trying = c.trying
        /\ d.available = c.available /\ d.tried = c.tried
    BY DEF Diligent, IsClient, SameCredentials, Fields
  <2>2. Startup(c, answer, slot) = d
    BY <1>2 DEF Startup
  <2> HIDE DEF d
  <2>3. Diligent(d)
    BY <2>1, StaysDiligent DEF Diligent
  <2>4. Tidy(d) /\ ~Unused(d)
    BY <2>1 DEF Tidy, Unused, SameCredentials
  <2> QED
    BY <1>2, <2>2, <2>3, <2>4 DEF Thorough
<1>3. CASE answer = "stranger"
  <2> DEFINE b == Reset(c)
             d == [b EXCEPT !.timers = Append(b.timers, "error")]
  <2>1. Startup(c, answer, slot) = d
    BY <1>3 DEF Startup
  <2>2. Diligent(b) /\ Blank(b) /\ b.state = 0
    BY ResetIsThorough, ResetHandles DEF Thorough
  <2> HIDE DEF b
  <2>3. /\ IsClient(d) /\ d.state = 0 /\ d.available = b.available /\ d.failed = b.failed
        /\ d.trying = b.trying /\ d.rash = b.rash /\ d.late = b.late /\ d.tried = b.tried
        /\ d.pass = b.pass /\ d.key = b.key
    BY <2>2 DEF Diligent, IsClient, Fields
  <2>4. d.timers \in Seq(Names)
    <3>1. d.timers = Append(b.timers, "error")
      BY <2>2 DEF Diligent, IsClient, Fields
    <3> QED
      BY <2>2, <3>1, Elements DEF Diligent, Names
  <2> HIDE DEF d
  <2>5. Blank(d) /\ Tidy(d) /\ ~Unused(d)
    BY <2>2, <2>3 DEF Blank, Tidy, Unused
  <2>6. Offered(d, d.failed)
    BY <2>2, <2>3 DEF Blank, Offered
  <2>7. Diligent(d)
    BY <2>2, <2>3, <2>4, <2>6 DEF Diligent
  <2> QED
    BY <2>1, <2>5, <2>7 DEF Thorough
<1>4. CASE answer # "failed" /\ ~(answer = "known" /\ c.known) /\ answer # "stranger"
  BY <1>4 DEF Startup, Thorough, Unused
<1> QED
  BY <1>1, <1>2, <1>3, <1>4

LEMMA ListIsThorough ==
    ASSUME NEW c, Diligent(c), Tidy(c), c.state = 3, NEW answer, NEW methods \in SUBSET Methods,
           NEW slot, NEW readable
    PROVE  Thorough(ListMethods(c, answer, methods, slot, readable))
<1>1. c.trying = FALSE /\ c.failed = {}
  BY DEF Tidy
<1>2. CASE answer = "failed"
  BY <1>2, SlotsHandle, ResetIsThorough DEF ListMethods, Handled
<1>3. CASE answer = "none needed"
  <2> DEFINE b == [c EXCEPT !.authenticated = TRUE]
             e == React(b, slot.connected)
             d == [e EXCEPT !.state = 5]
  <2>1. /\ SameCredentials(c, b) /\ b.trying = FALSE /\ b.available = c.available /\ b.tried = c.tried
    BY <1>1 DEF Diligent, IsClient, SameCredentials, Fields
  <2>2. ListMethods(c, answer, methods, slot, readable) = d
    BY <1>3 DEF ListMethods
  <2> HIDE DEF b
  <2>3. Diligent(e) /\ e.trying = FALSE
    <3>1. Diligent(b)
      BY <2>1, StaysDiligent DEF Diligent
    <3>2. Handled(b, e)
      BY <3>1, SlotsHandle
    <3> HIDE DEF e
    <3> QED
      BY <2>1, <3>2 DEF Handled
  <2> HIDE DEF e
  <2>4. /\ SameCredentials(e, d) /\ d.state = 5 /\ d.trying = FALSE
        /\ d.available = e.available /\ d.tried = e.tried
    BY <2>3 DEF Diligent, IsClient, SameCredentials, Fields
  <2> HIDE DEF d
  <2>5. Diligent(d)
    BY <2>3, <2>4, StaysDiligent DEF Diligent
  <2>6. Tidy(d) /\ ~Unused(d)
    BY <2>4 DEF Tidy, Unused
  <2> QED
    BY <2>2, <2>5, <2>6 DEF Thorough
<1>4. CASE answer = "list"
  <2> DEFINE d == [c EXCEPT !.state = 4, !.available = @ \cup methods]
  <2>1. /\ SameCredentials(c, d) /\ d.state = 4 /\ d.trying = FALSE
        /\ d.available = c.available \cup methods /\ d.tried = c.tried
    BY <1>1 DEF Diligent, IsClient, SameCredentials, Fields
  <2>2. ListMethods(c, answer, methods, slot, readable) = LookForMethod(d, slot, readable)
    BY <1>4 DEF ListMethods
  <2> HIDE DEF d
  <2>3. d.available \subseteq Methods
    BY <2>1 DEF Diligent
  <2>4. Diligent(d)
    BY <1>1, <2>1, <2>3, StaysDiligent
  <2> QED
    BY <2>1, <2>2, <2>4, LookIsThorough
<1>5. CASE answer # "failed" /\ answer # "none needed" /\ answer # "list"
  <2>1. ListMethods(c, answer, methods, slot, readable) = c
    BY <1>5 DEF ListMethods
  <2> QED
    BY <2>1 DEF Thorough, Unused
<1> QED
  BY <1>2, <1>3, <1>4, <1>5

LEMMA AuthenticateIsThorough ==
    ASSUME NEW c, Diligent(c), Tidy(c), c.state = 5, NEW answer, NEW slot, NEW readable
    PROVE  Thorough(Authenticate(c, answer, slot, readable))
<1>1. c.trying \in BOOLEAN
  BY DEF Diligent
<1>2. CASE c.try \notin Methods
  <2> DEFINE d == [c EXCEPT !.state = 6]
  <2>1. /\ SameCredentials(c, d) /\ d.state = 6 /\ d.trying = c.trying
        /\ d.available = c.available /\ d.tried = c.tried
    BY DEF Diligent, IsClient, SameCredentials, Fields
  <2>2. Authenticate(c, answer, slot, readable) = d
    BY <1>2 DEF Authenticate
  <2> HIDE DEF d
  <2>3. Diligent(d)
    BY <2>1, StaysDiligent DEF Diligent
  <2>4. Tidy(d) /\ ~Unused(d)
    BY <2>1 DEF Tidy, Unused
  <2> QED
    BY <2>2, <2>3, <2>4 DEF Thorough
<1>3. CASE c.try \in Methods /\ c.trying = FALSE
  BY <1>3, BeginIsThorough DEF Authenticate
<1>4. CASE c.try \in Methods /\ c.trying = TRUE
  <2>1. CASE answer = "accepted"
    <3> DEFINE b == [c EXCEPT !.state = 6, !.trying = FALSE, !.authenticated = TRUE]
               d == React(b, slot.connected)
    <3>1. /\ SameCredentials(c, b) /\ b.state = 6 /\ b.trying = FALSE
          /\ b.available = c.available /\ b.tried = c.tried
      BY DEF Diligent, IsClient, SameCredentials, Fields
    <3>2. Authenticate(c, answer, slot, readable) = d
      BY <1>4, <2>1 DEF Authenticate
    <3> HIDE DEF b
    <3>3. Diligent(b)
      BY <3>1, StaysDiligent DEF Diligent
    <3>4. Tidy(b)
      BY <3>1 DEF Tidy
    <3>5. Handled(b, d)
      BY <3>3, SlotsHandle
    <3> HIDE DEF d
    <3>6. Diligent(d) /\ Tidy(d)
      BY <3>3, <3>4, <3>5, HandledIsTidy DEF Handled
    <3>7. ~Unused(d)
      BY <3>1, <3>5 DEF Handled, Unused
    <3> QED
      BY <3>2, <3>6, <3>7 DEF Thorough
  <2>2. CASE answer = "refused"
    BY <1>4, <2>2, RefusedIsNoted, LookIsThorough DEF Authenticate, Tidy
  <2>3. CASE answer \notin {"accepted", "refused"}
    BY <1>4, <2>3 DEF Authenticate, Thorough, Unused
  <2> QED
    BY <2>1, <2>2, <2>3
<1> QED
  BY <1>1, <1>2, <1>3, <1>4

LEMMA ReadyReadIsThorough ==
    ASSUME NEW c, Diligent(c), Tidy(c), NEW answer, NEW methods \in SUBSET Methods,
           NEW slot, NEW readable
    PROVE  LET d == ClientReadyRead(c, answer, methods, slot, readable) IN
           /\ Thorough(d)
           /\ Blank(c) => Blank(d)
           /\ c.state = 2 /\ answer = "stranger" => Blank(d)
<1>1. CASE c.state = 2
  <2>1. ~Blank(c)
    BY <1>1 DEF Blank
  <2> QED
    BY <1>1, <2>1, StartupIsThorough DEF ClientReadyRead
<1>2. CASE c.state = 3
  BY <1>2, ListIsThorough DEF ClientReadyRead, Blank
<1>3. CASE c.state = 4
  BY <1>3, LookIsThorough DEF ClientReadyRead, Blank
<1>4. CASE c.state = 5
  BY <1>4, AuthenticateIsThorough DEF ClientReadyRead, Blank
<1>5. CASE c.state # 2 /\ c.state # 3 /\ c.state # 4 /\ c.state # 5
  <2>1. ClientReadyRead(c, answer, methods, slot, readable) = c
    BY <1>5 DEF ClientReadyRead
  <2> QED
    BY <1>5, <2>1 DEF Thorough, Unused
<1> QED
  BY <1>1, <1>2, <1>3, <1>4, <1>5

\* The running call ends.
LEMMA BecomeUses ==
    ASSUME NEW c, Diligent(c), Tidy(c), NEW timers \in Seq(Names), Become(c, timers),
           Unused(c) => "readyRead" \in Range(timers) \cup Range(c.timers),
           tcp' # "open" => Blank(c)
    PROVE  UseInv'
<1> DEFINE d == [c EXCEPT !.timers = <<>>]
<1>1. client' = d /\ posted' = timers \o c.timers
  BY DEF Become
<1>2. /\ IsClient(d) /\ d.timers = <<>> /\ d.state = c.state /\ d.try = c.try
      /\ d.available = c.available /\ d.failed = c.failed /\ d.trying = c.trying
      /\ d.pass = c.pass /\ d.key = c.key /\ d.tried = c.tried /\ d.late = c.late /\ d.rash = c.rash
  BY DEF Diligent, IsClient, Fields
<1> HIDE DEF d
<1>3. \A m \in Methods : Offer(d, m) = Offer(c, m) /\ (HasCredentials(d, m) <=> HasCredentials(c, m))
  BY <1>2 DEF Offer, HasCredentials
<1>4. \A ms : Offered(c, ms) => Offered(d, ms)
  BY <1>2, <1>3 DEF Offered, Diligent
<1>5. d.timers \in Seq(Names)
  BY <1>2
<1>6. Diligent(d) /\ Tidy(d) /\ (Blank(c) => Blank(d))
  BY <1>2, <1>4, <1>5 DEF Diligent, Tidy, Blank
<1>7. Unused(d) => Unused(c)
  BY <1>2, <1>3 DEF Unused, Untried, Diligent
<1>8. /\ posted' \in Seq(Names)
      /\ Range(timers) \subseteq Range(posted') /\ Range(c.timers) \subseteq Range(posted')
  BY <1>1, Joint DEF Diligent
<1>9. Unused(d) => "readyRead" \in Range(posted')
  BY <1>7, <1>8
<1>10. /\ Diligent(client') /\ Tidy(client') /\ (tcp' # "open" => Blank(client'))
       /\ client'.timers = <<>> /\ (Unused(client') => "readyRead" \in Range(posted'))
  BY <1>1, <1>2, <1>6, <1>9
<1> QED
  BY <1>8, <1>10 DEF UseInv, Diligent, Tidy, Blank, Unused, Offered, Untried, Offer, HasCredentials, IsClient, Range

LEMMA RunUses ==
    ASSUME UseInv, NEW timers \in Seq(Names), RunReadyRead(timers)
    PROVE  UseInv'
<1>1. PICK answer \in Answers(client) :
          \E methods \in MethodSets(answer), slot \in Slots(client, answer), readable \in KeysReadable(answer) :
             /\ Become(ClientReadyRead(client, answer, methods, slot, readable), timers)
             /\ tcp' \in IF client.state = 2 /\ answer = "stranger" THEN {tcp, "closed"} ELSE {tcp}
  BY DEF RunReadyRead
<1>2. PICK methods \in MethodSets(answer), slot \in Slots(client, answer), readable \in KeysReadable(answer) :
          /\ Become(ClientReadyRead(client, answer, methods, slot, readable), timers)
          /\ tcp' \in IF client.state = 2 /\ answer = "stranger" THEN {tcp, "closed"} ELSE {tcp}
  BY <1>1
<1> DEFINE d == ClientReadyRead(client, answer, methods, slot, readable)
<1>3. methods \in SUBSET Methods
  BY DEF MethodSets
<1>4. /\ Thorough(d)
      /\ Blank(client) => Blank(d)
      /\ client.state = 2 /\ answer = "stranger" => Blank(d)
  BY <1>3, ReadyReadIsThorough DEF UseInv
<1>5. tcp' # "open" => Blank(d)
  BY <1>2, <1>4 DEF UseInv
<1>6. Become(d, timers)
  BY <1>2
<1> HIDE DEF d
<1> QED
  BY <1>4, <1>5, <1>6, BecomeUses DEF Thorough

\* A slot that runs, or the application that calls the same, outside d_readyRead().
LEMMA SlotUses ==
    ASSUME UseInv, NEW reaction, NEW timers \in Seq(Names), Become(React(client, reaction), timers),
           UNCHANGED tcp, "readyRead" \in Range(posted) => "readyRead" \in Range(timers)
    PROVE  UseInv'
<1> DEFINE d == React(client, reaction)
<1>1. Handled(client, d) /\ Become(d, timers)
  BY SlotsHandle DEF UseInv
<1> HIDE DEF d
<1>2. Diligent(d) /\ Tidy(d) /\ (Blank(client) => Blank(d))
  BY <1>1, HandledIsTidy DEF Handled, UseInv
<1>3. Unused(d) => "readyRead" \in Range(timers) \cup Range(d.timers)
  <2> SUFFICES ASSUME Unused(d), "readyRead" \notin Range(d.timers)
               PROVE  "readyRead" \in Range(timers)
    OBVIOUS
  <2>1. client.state = 4 /\ Untried(d) = Untried(client)
    BY <1>1 DEF Handled, Unused
  <2> QED
    BY <2>1 DEF UseInv, Unused
<1> QED
  BY <1>1, <1>2, <1>3, BecomeUses DEF UseInv

\* Nothing but the state of the client changes, and it is none of those in
\* which d_readyRead() looks for a method.
LEMMA StateSetUses ==
    ASSUME UseInv, NEW n \in {1, 2}, client' = [client EXCEPT !.state = n], posted' = posted,
           n = 2 => Blank(client) /\ tcp' = "open",
           n = 1 => (tcp' # "open" => tcp # "open")
    PROVE  UseInv'
<1> DEFINE d == [client EXCEPT !.state = n]
<1>1. /\ SameCredentials(client, d) /\ d.state = n /\ d.trying = client.trying
      /\ d.available = client.available /\ d.tried = client.tried /\ d.timers = <<>>
  BY DEF UseInv, Diligent, IsClient, SameCredentials, Fields
<1>2. client' = d
  OBVIOUS
<1> HIDE DEF d
<1>3. Diligent(d)
  BY <1>1, StaysDiligent DEF Diligent, UseInv
<1>4. Tidy(d) /\ ~Unused(d)
  BY <1>1 DEF Tidy, Unused, Blank, SameCredentials
<1>5. tcp' # "open" => Blank(d)
  BY <1>1 DEF UseInv, Blank, SameCredentials
<1>6. /\ Diligent(client') /\ Tidy(client') /\ ~Unused(client') /\ (tcp' # "open" => Blank(client'))
      /\ client'.timers = <<>> /\ posted' \in Seq(Names)
  BY <1>1, <1>2, <1>3, <1>4, <1>5 DEF UseInv
<1> QED
  BY <1>6 DEF UseInv, Diligent, Tidy, Blank, Unused, Offered, Untried, Offer, HasCredentials, IsClient, Range

LEMMA UseStep == UseInv /\ [Next]_vars => UseInv'
<1> SUFFICES ASSUME UseInv, [Next]_vars
             PROVE  UseInv'
  OBVIOUS
<1>1. CASE DataArrives
  BY <1>1, RunUses DEF DataArrives, UseInv
<1>2. CASE TimerFires
  <2>1. /\ posted \in Seq(Names) /\ posted # <<>> /\ Tail(posted) \in Seq(Names)
        /\ Range(posted) \subseteq Range(Tail(posted)) \cup {Head(posted)}
    <3>1. "error" \in Names
      BY DEF Names
    <3> QED
      BY <1>2, <3>1, Elements DEF TimerFires, UseInv
  <2>2. CASE RunReadyRead(Tail(posted))
    BY <2>1, <2>2, RunUses
  <2>3. ASSUME NEW reaction \in Reactions, Become(React(client, reaction), Tail(posted)),
               UNCHANGED tcp, Head(posted) = "error"
        PROVE  UseInv'
    BY <2>1, <2>3, SlotUses
  <2> QED
    BY <1>2, <2>2, <2>3 DEF TimerFires
<1>3. CASE ConnectToHost
  <2>1. /\ client' = [client EXCEPT !.state = 1] /\ posted' = posted
        /\ tcp' # "open" => tcp # "open"
    BY <1>3 DEF ConnectToHost
  <2> QED
    BY <2>1, StateSetUses
<1>4. CASE Connected
  <2>1. /\ client' = [client EXCEPT !.state = 2] /\ posted' = posted /\ tcp' = "open" /\ Blank(client)
    BY <1>4 DEF Connected, UseInv
  <2> QED
    BY <2>1, StateSetUses
<1>5. CASE ConnectionIsLost
  <2> DEFINE d == IF client.state = 0 THEN client ELSE Reset(client)
  <2>1. Become(d, posted)
    BY <1>5 DEF ConnectionIsLost
  <2>2. Diligent(d) /\ Tidy(d) /\ Blank(d) /\ ~Unused(d)
    <3>1. CASE client.state = 0
      BY <3>1 DEF UseInv, Tidy, Blank, Unused
    <3>2. CASE client.state # 0
      <4>1. Thorough(Reset(client)) /\ Blank(Reset(client))
        BY ResetIsThorough DEF UseInv
      <4> QED
        BY <3>2, <4>1 DEF Thorough, Blank, Unused
    <3> QED
      BY <3>1, <3>2
  <2> HIDE DEF d
  <2> QED
    BY <2>1, <2>2, BecomeUses DEF UseInv
<1>6. CASE Configure
  <2>1. ASSUME NEW reaction \in Reactions, Become(React(client, reaction), posted)
        PROVE  UseInv'
    BY <1>6, <2>1, SlotUses DEF Configure, UseInv
  <2>2. ASSUME Become([client EXCEPT !.known = TRUE], posted)
        PROVE  UseInv'
    <3> DEFINE d == [client EXCEPT !.known = TRUE]
    <3>1. /\ SameCredentials(client, d) /\ d.state = client.state /\ d.trying = client.trying /\ d.try = client.try
          /\ d.available = client.available /\ d.tried = client.tried
      BY DEF UseInv, Diligent, IsClient, SameCredentials, Fields
    <3>2. Become(d, posted) /\ tcp' = tcp
      BY <1>6, <2>2 DEF Configure
    <3> HIDE DEF d
    <3>3. Diligent(d)
      BY <3>1, StaysDiligent DEF Diligent, UseInv
    <3>4. \A ms : Offered(client, ms) => Offered(d, ms)
      BY <3>1 DEF Offered, SameCredentials, Offer, HasCredentials
    <3>5. Tidy(d) /\ (Blank(client) => Blank(d)) /\ (Unused(d) => Unused(client))
      BY <3>1, <3>4 DEF UseInv, Tidy, Blank, Unused, Untried, SameCredentials, HasCredentials
    <3> QED
      BY <3>2, <3>3, <3>5, BecomeUses DEF UseInv
  <2> QED
    BY <1>6, <2>1, <2>2 DEF Configure
<1>7. CASE ConnectionFails
  BY <1>7 DEF ConnectionFails, UseInv, Diligent, Tidy, Blank, Unused, Offered, Untried, Offer, HasCredentials, IsClient, Range
<1>8. CASE UNCHANGED <<client, tcp, posted>>
  BY <1>8 DEF UseInv, Diligent, Tidy, Blank, Unused, Offered, Untried, Offer, HasCredentials, IsClient, Range
<1> QED
  BY <1>1, <1>2, <1>3, <1>4, <1>5, <1>6, <1>7, <1>8 DEF Next, OpenChannel, AskChannel, DeleteChannel, vars

LEMMA UseInitially == Init => UseInv
<1> SUFFICES ASSUME Init
             PROVE  UseInv
  OBVIOUS
<1>1. /\ IsClient(client) /\ client.state = 0 /\ client.available = {} /\ client.failed = {}
      /\ client.trying = FALSE /\ client.rash = FALSE /\ client.timers = <<>>
  BY DEF Init, IsClient, Fields
<1>2. client.timers \in Seq(Names) /\ posted \in Seq(Names)
  BY <1>1 DEF Init
<1>3. Diligent(client)
  BY <1>1, <1>2 DEF Diligent, Offered
<1>4. Tidy(client) /\ Blank(client) /\ ~Unused(client)
  BY <1>1 DEF Tidy, Blank, Unused
<1> QED
  BY <1>1, <1>2, <1>3, <1>4 DEF UseInv

\* authenticationRequired() is emitted only when every credential there is was
\* offered, save those changed during the try; and what is set while nothing is
\* tried will be: a call of d_readyRead() is coming.  It holds for every slot
\* and also for a connection that a slot of connected() has left.
THEOREM CredentialsStayUsed == Spec => []CredentialsAreUsed
<1>1. UseInv => CredentialsAreUsed
  BY DEF UseInv, Diligent, Unused, CredentialsAreUsed
<1> QED
  BY <1>1, UseInitially, UseStep, PTL DEF Spec

-----------------------------------------------------------------------------
(* Channels.  A terminal that was asked for is what the channel is about,  *)
(* or the next thing it will be.                                           *)

Requests == {3, 4, 5}

IsChannel(ch) == DOMAIN ch = {"kind", "state", "session", "next", "pty"}

TerminalIsNext(ch) ==
    /\ IsChannel(ch)
    /\ ch.next \in Seq(Requests)
    /\ ch.kind = "process" => ch.state \in {1, 2, 3, 4, 5, 66, 9999}
    /\ ch.kind # "process" => ch.pty = "no"
    /\ ch.state = 2 => ch.next = <<>>
    /\ ch.pty = "asked" => ch.state = 5 \/ (ch.state = 1 /\ ch.next # <<>> /\ Head(ch.next) = 5)

LEMMA SettleKeeps ==
    ASSUME NEW ch, TerminalIsNext(ch), ch.state \in {1, 2} \/ ch.pty # "asked"
    PROVE  TerminalIsNext(Settle(ch))
<1> DEFINE d == Settle(ch)
<1>1. CASE ch.next = <<>>
  <2>1. IsChannel(d) /\ d.state = 2 /\ d.next = <<>> /\ d.kind = ch.kind /\ d.pty = ch.pty
    BY <1>1 DEF Settle, TerminalIsNext, IsChannel
  <2>2. ch.pty # "asked"
    BY <1>1 DEF TerminalIsNext
  <2> HIDE DEF d
  <2>3. TerminalIsNext(d)
    BY <2>1, <2>2 DEF TerminalIsNext
  <2> QED
    BY <2>3 DEF d
<1>2. CASE ch.next # <<>>
  <2>1. Head(ch.next) \in Requests /\ Tail(ch.next) \in Seq(Requests)
    BY <1>2 DEF TerminalIsNext
  <2>2. /\ IsChannel(d) /\ d.state = Head(ch.next) /\ d.next = Tail(ch.next)
        /\ d.kind = ch.kind /\ d.pty = ch.pty
    BY <1>2 DEF Settle, TerminalIsNext, IsChannel
  <2>3. ch.pty = "asked" => Head(ch.next) = 5
    BY <1>2 DEF TerminalIsNext
  <2> HIDE DEF d
  <2>4. TerminalIsNext(d)
    BY <2>1, <2>2, <2>3 DEF TerminalIsNext, Requests
  <2> QED
    BY <2>4 DEF d
<1> QED
  BY <1>1, <1>2

LEMMA ActivateKeeps ==
    ASSUME NEW ch, TerminalIsNext(ch)
    PROVE  TerminalIsNext(Activate(ch))
<1>1. CASE ch.state \in {1, 2}
  BY <1>1, SettleKeeps DEF Activate
<1>2. CASE ch.state = 5
  <2> DEFINE b == [ch EXCEPT !.pty = IF @ = "asked" THEN "given" ELSE @]
  <2>1. /\ IsChannel(b) /\ b.state = 5 /\ b.next = ch.next /\ b.kind = ch.kind
        /\ b.pty # "asked" /\ (ch.pty = "no" => b.pty = "no")
    BY <1>2 DEF TerminalIsNext, IsChannel
  <2>2. Activate(ch) = Settle(b)
    BY <1>2 DEF Activate
  <2> HIDE DEF b
  <2>3. TerminalIsNext(b)
    BY <1>2, <2>1 DEF TerminalIsNext
  <2> QED
    BY <2>1, <2>2, <2>3, SettleKeeps
<1>3. ASSUME NEW n \in {66, 9999}, ch.state \in {3, 4, 10}
      PROVE  TerminalIsNext([ch EXCEPT !.state = n])
  <2> DEFINE d == [ch EXCEPT !.state = n]
  <2>1. IsChannel(d) /\ d.state = n /\ d.next = ch.next /\ d.kind = ch.kind /\ d.pty = ch.pty
    BY DEF TerminalIsNext, IsChannel
  <2>2. ch.pty # "asked"
    BY <1>3 DEF TerminalIsNext
  <2> HIDE DEF d
  <2>3. TerminalIsNext(d)
    BY <2>1, <2>2 DEF TerminalIsNext
  <2> QED
    BY <2>3 DEF d
<1>4. CASE ch.state = 3
  BY <1>3, <1>4 DEF Activate
<1>5. CASE ch.state \in {4, 10}
  BY <1>3, <1>5 DEF Activate
<1>6. CASE ch.state \notin {1, 2, 3, 4, 5, 10}
  BY <1>6 DEF Activate
<1> QED
  BY <1>1, <1>2, <1>4, <1>5, <1>6

\* What is asked of an idle channel begins; the rest waits its turn.
LEMMA AskingKeeps ==
    ASSUME NEW ch, TerminalIsNext(ch), ch.kind = "process", NEW what \in Requests
    PROVE  TerminalIsNext([Ask(ch, what) EXCEPT
                               !.pty = IF @ = "no" /\ what = 5 /\ ch.state \notin Programs
                                          /\ ~IsOpen(ch) /\ Range(ch.next) \cap Programs = {}
                                       THEN "asked" ELSE @])
<1> DEFINE a == Ask(ch, what)
           first == ch.pty = "no" /\ what = 5 /\ ch.state \notin Programs
                    /\ ~IsOpen(ch) /\ Range(ch.next) \cap Programs = {}
           d == [a EXCEPT !.pty = IF first THEN "asked" ELSE @]
<1>1. /\ IsChannel(a) /\ a.kind = "process" /\ a.pty = ch.pty
      /\ a.state = IF ch.state = 2 THEN what ELSE ch.state
      /\ a.next = ch.next \/ (a.next = Append(ch.next, what) /\ ch.state # 2)
      /\ ch.state \in {1, 5} /\ what \notin Range(ch.next) => a.next = Append(ch.next, what)
  BY DEF Ask, TerminalIsNext, IsChannel
<1>2. a.next \in Seq(Requests) /\ (ch.next # <<>> => a.next # <<>> /\ Head(a.next) = Head(ch.next))
  <2>1. /\ Append(ch.next, what) \in Seq(Requests)
        /\ ch.next # <<>> => Append(ch.next, what) # <<>> /\ Head(Append(ch.next, what)) = Head(ch.next)
    <3>1. \A s \in Seq(Requests) :
              /\ Append(s, what) \in Seq(Requests)
              /\ s # <<>> => Append(s, what) # <<>> /\ Head(Append(s, what)) = Head(s)
      OBVIOUS
    <3> QED
      BY <3>1 DEF TerminalIsNext
  <2>2. ch.next \in Seq(Requests)
    BY DEF TerminalIsNext
  <2>3. a.next = ch.next \/ a.next = Append(ch.next, what)
    BY <1>1
  <2> HIDE DEF a
  <2>4. CASE a.next = ch.next
    BY <2>2, <2>4, Zenon
  <2>5. CASE a.next = Append(ch.next, what)
    BY <2>1, <2>5, Zenon
  <2> QED
    BY <2>3, <2>4, <2>5
<1>3. [Ask(ch, what) EXCEPT !.pty = IF @ = "no" /\ what = 5 /\ ch.state \notin Programs
                                       /\ ~IsOpen(ch) /\ Range(ch.next) \cap Programs = {}
                                    THEN "asked" ELSE @] = d
  BY <1>1
<1> HIDE DEF a
<1>4. /\ IsChannel(d) /\ d.kind = "process" /\ d.state = a.state /\ d.next = a.next
      /\ d.pty = IF first THEN "asked" ELSE ch.pty
  BY <1>1 DEF IsChannel
<1>5. ASSUME first
      PROVE  a.state = 5 \/ (a.state = 1 /\ a.next # <<>> /\ Head(a.next) = 5)
  <2>1. ch.state \in {1, 2, 5}
    BY <1>5 DEF TerminalIsNext, Programs, IsOpen
  <2>2. ASSUME ch.state = 1
        PROVE  a.next # <<>> /\ Head(a.next) = 5
    <3>1. CASE ch.next = <<>>
      <4>1. Range(ch.next) = {}
        BY <3>1 DEF Range
      <4>2. a.next = Append(<<>>, 5)
        BY <1>1, <1>5, <2>2, <3>1, <4>1
      <4> QED
        BY <4>2
    <3>2. CASE ch.next # <<>>
      <4>1. Head(ch.next) \in Range(ch.next) /\ Head(ch.next) \in Requests
        <5>1. 1 \in DOMAIN ch.next /\ Head(ch.next) = ch.next[1] /\ ch.next[1] \in Requests
          BY <3>2 DEF TerminalIsNext
        <5> QED
          BY <5>1 DEF Range
      <4> QED
        BY <1>2, <1>5, <3>2, <4>1 DEF Requests, Programs
    <3> QED
      BY <3>1, <3>2
  <2> QED
    BY <1>1, <1>5, <2>1, <2>2
<1>6. ASSUME ch.pty = "asked"
      PROVE  a.state = 5 \/ (a.state = 1 /\ a.next # <<>> /\ Head(a.next) = 5)
  BY <1>1, <1>2, <1>6 DEF TerminalIsNext
<1>7. /\ a.state \in {1, 2, 3, 4, 5, 66, 9999}
      /\ a.state # 2
  BY <1>1 DEF TerminalIsNext, Requests
<1> HIDE DEF first, d
<1>8. TerminalIsNext(d)
  BY <1>2, <1>4, <1>5, <1>6, <1>7 DEF TerminalIsNext
<1> QED
  BY <1>3, <1>8

LEMMA TerminalStep == TerminalIsNext(channel) /\ [Next]_vars => TerminalIsNext(channel')
<1> SUFFICES ASSUME TerminalIsNext(channel), [Next]_vars
             PROVE  TerminalIsNext(channel')
  OBVIOUS
<1>1. ASSUME NEW timers, RunReadyRead(timers)
      PROVE  TerminalIsNext(channel')
  <2>1. channel' = channel \/ channel' = Activate(channel)
    BY <1>1 DEF RunReadyRead, ActivateChannel
  <2> QED
    BY <2>1, ActivateKeeps
<1>2. ASSUME NEW kind \in {"process", "tcp"}, OpenChannel(kind)
      PROVE  TerminalIsNext(channel')
  <2>1. channel' = [NoChannel EXCEPT !.kind = kind, !.session = client.session,
                                     !.state = IF kind = "process" THEN 1 ELSE 10]
    BY <1>2 DEF OpenChannel
  <2>2. /\ IsChannel(channel') /\ channel'.kind = kind /\ channel'.pty = "no" /\ channel'.next = <<>>
        /\ channel'.state = IF kind = "process" THEN 1 ELSE 10
    BY <2>1 DEF NoChannel, IsChannel
  <2> QED
    BY <2>2 DEF TerminalIsNext
<1>3. ASSUME NEW what \in {3, 4, 5}, AskChannel(what)
      PROVE  TerminalIsNext(channel')
  BY <1>3, AskingKeeps DEF AskChannel, Requests
<1>4. CASE DeleteChannel
  <2>1. /\ IsChannel(channel') /\ channel'.kind = "deleted" /\ channel'.pty = "no"
        /\ channel'.next = <<>> /\ channel'.state = 0
    BY <1>4 DEF DeleteChannel, NoChannel, IsChannel
  <2> QED
    BY <2>1 DEF TerminalIsNext
<1>5. CASE channel' = channel
  BY <1>5
<1> QED
  BY <1>1, <1>2, <1>3, <1>4, <1>5 DEF Next, DataArrives, TimerFires, ConnectToHost, Connected,
     ConnectionFails, ConnectionIsLost, Configure, vars

\* A terminal that was requested before any program is there when the program
\* or the shell starts, whatever else is asked of the channel meanwhile.
THEOREM TerminalsComeFirst == Spec => []TerminalComesFirst
<1> DEFINE I == TerminalIsNext(channel)
<1>1. Init => I
  BY DEF Init, NoChannel, TerminalIsNext, IsChannel
<1>2. I /\ [Next]_vars => I'
  BY TerminalStep DEF TerminalIsNext, IsChannel
<1>3. I => TerminalComesFirst
  BY DEF TerminalIsNext, TerminalComesFirst, IsOpen, Programs
<1> HIDE DEF I
<1> QED
  BY <1>1, <1>2, <1>3, PTL DEF Spec
=============================================================================
