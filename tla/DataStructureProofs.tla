------------------------ MODULE DataStructureProofs ------------------------
(***************************************************************************)
(* Proofs about two data structures that stand by themselves.  First the   *)
(* redundant U-Boot environment (UbootEnv), for every set of names and     *)
(* values, every layout and all 256 values of the counter.  Then the trim  *)
(* bit vector (TrimVector): bytes, masks and rounding stand for the set of *)
(* trimmed segments, for every size of byte, segment and array.            *)
(***************************************************************************)
EXTENDS UbootEnv, TrimVector, FiniteSetTheorems, TLAPS

----------------------------------------------------------------------------
(* The U-Boot environment                                                  *)

\* There are two copies.
LEMMA TwoCopies ==
  /\ Other("primary") = "secondary" /\ Other("secondary") = "primary"
  /\ \A c \in Copy : Other(c) \in Copy /\ Other(c) # c
BY DEF Other, Copy

\* After an update of one copy with the other's counter plus one, that copy is
\* the one to try first.
LEMMA PreferredAfterUpdate ==
  ASSUME NEW s \in [Copy -> Stored], NEW c \in Copy,
         s[c].flag = (s[Other(c)].flag + 1) % 256
  PROVE  Preferred(s) = c
<1> DEFINE f == s[Other(c)].flag
<1>1. f \in 0 .. 255 /\ s[c].flag = (f + 1) % 256
  BY TwoCopies DEF Stored, Flag
<1>2. (256 + ((f + 1) % 256) - f) % 256 = 1 /\ (256 + f - ((f + 1) % 256)) % 256 = 255
  <2> HIDE DEF f
  <2>0. 256 % 256 = 0 /\ 1 % 256 = 1 /\ 511 % 256 = 255 /\ 257 % 256 = 1 /\ 255 % 256 = 255
    OBVIOUS
  <2>1. CASE f = 255
    <3>1. (f + 1) % 256 = 0
      BY <2>0, <2>1
    <3>2. 256 + 0 - f = 1 /\ 256 + f - 0 = 511
      BY <2>1
    <3> QED BY <2>0, <3>1, <3>2
  <2>2. CASE f # 255
    <3>1. (f + 1) % 256 = f + 1
      BY <1>1, <2>2
    <3>2. 256 + (f + 1) - f = 257 /\ 256 + f - (f + 1) = 255
      BY <1>1
    <3> QED BY <2>0, <3>1, <3>2
  <2> QED BY <2>1, <2>2
<1>3. CASE c = "secondary"
  BY <1>1, <1>2, <1>3, TwoCopies DEF Preferred
<1>4. CASE c = "primary"
  BY <1>1, <1>2, <1>4, TwoCopies DEF Preferred
<1> QED BY <1>3, <1>4 DEF Copy

----------------------------------------------------------------------------
(* Types                                                                   *)

\* What a read leaves in struct uboot_env.
Decoded == [ok : BOOLEAN, data : Env \cup {Bad}, flags : Flag, writes : SUBSET Copy]

\* A read is typed, decodes exactly when it finds an environment, and names
\* copies to write.
LEMMA ReadTyped ==
  ASSUME NEW s \in [Copy -> Stored]
  PROVE  /\ uboot_env_read(s) \in Decoded
         /\ uboot_env_read(s).ok <=> uboot_env_read(s).data # Bad
<1>1. Preferred(s) \in Copy /\ Other(Preferred(s)) \in Copy
  BY TwoCopies DEF Preferred, Copy
<1>2. \A c \in Copy : s[c].flag \in Flag /\ s[c].data \in Env \cup {Bad}
  BY DEF Stored
<1>3. "primary" \in Copy /\ 0 \in Flag
  BY DEF Copy, Flag
<1> QED BY <1>1, <1>2, <1>3 DEF uboot_env_read, uboot_env_read_redundant,
        uboot_env_read_non_redundant, Decoded

\* What uboot_env_write puts into a copy.
LEMMA EncodedTyped ==
  ASSUME NEW env \in Decoded
  PROVE  Encoded(env) \in Stored
<1>1. env.flags \in 0 .. 255 /\ env.data \in Env \cup {Bad}
  BY DEF Decoded, Flag
<1>2. (env.flags + 1) % 256 \in 0 .. 255
  BY <1>1
<1> QED BY <1>1, <1>2 DEF Encoded, Stored, Flag

\* A fresh struct uboot_env.
LEMMA CreateTyped == uboot_env_create_cfg \in Decoded /\ Empty \in Env
BY DEF uboot_env_create_cfg, Decoded, Empty, Env, Flag, Copy

\* A changed environment is one, and the rest of the struct is kept.
LEMMA ChangeTyped ==
  ASSUME NEW env \in Decoded, env.ok, env.data # Bad, NEW n \in Names, NEW v \in Vals \cup {Unset}
  PROVE  LET new == [env EXCEPT !.data = [env.data EXCEPT ![n] = v]] IN
         /\ new \in Decoded /\ new.data \in Env
         /\ new.flags = env.flags /\ new.writes = env.writes
<1>1. env.data \in Env
  BY DEF Decoded
<1>2. [env.data EXCEPT ![n] = v] \in Env
  BY <1>1 DEF Env
<1> QED BY <1>2 DEF Decoded

\* Initial copies, and what an interruption leaves of them.
LEMMA StartTyped == StartCopies \subseteq [Copy -> Stored]
<1>1. \A ff \in StartFlags : ff[1] \in Flag /\ ff[2] \in Flag
  BY UbootAssumption
<1>2. OneSet \in Env
  BY UbootAssumption, CreateTyped DEF Env, OneSet
<1> QED BY <1>1, <1>2, CreateTyped DEF StartCopies, Stored

\* An interrupted write of one copy leaves a typed copy.
LEMMA TornTyped ==
  ASSUME NEW old \in Stored, NEW new \in Stored
  PROVE  Torn(old, new) \subseteq Stored
BY DEF Torn, Stored

\* An error, or a write, ends a handler.
LEMMA FailTyped == TypeOK /\ Fail => TypeOK'
<1> SUFFICES ASSUME TypeOK, Fail PROVE TypeOK'
  OBVIOUS
<1>1. Found(disk) \in Env \cup {Bad}
  BY ReadTyped DEF TypeOK, Found, Decoded
<1> QED BY <1>1 DEF TypeOK, Fail

\* uboot_env_write keeps the types.
LEMMA WriteTyped ==
  ASSUME TypeOK, NEW env \in Decoded, uboot_env_write(env), env.data \in Env
  PROVE  TypeOK'
<1>1. CASE Fail
  BY <1>1, FailTyped
<1>2. CASE ~Fail
  <2>1. Encoded(env) \in Stored /\ env.writes \subseteq Copy
    BY EncodedTyped DEF Decoded
  <2>2. cache' \in [Copy -> Stored] /\ disk' \in [Copy -> Stored] /\ dirty' \subseteq Copy
    <3>1. /\ cache' = [c \in Copy |-> IF c \in env.writes THEN Encoded(env) ELSE cache[c]]
          /\ disk' = disk /\ dirty' = dirty \cup env.writes
      BY <1>2 DEF uboot_env_write
    <3> QED BY <2>1, <3>1 DEF TypeOK
  <2>3. /\ recent' \in Copy /\ failed' \in BOOLEAN /\ updates' \in Nat /\ batch' \in Nat
    BY <1>2 DEF uboot_env_write, TypeOK, Copy
  <2>5. cleared' \in BOOLEAN
    BY <1>2, Zenon DEF uboot_env_write
  <2>4. last' \in Env \cup {Bad} /\ accepted' \subseteq Env \cup {Bad}
    BY <1>2 DEF uboot_env_write, TypeOK
  <2> QED BY <2>2, <2>3, <2>4, <2>5 DEF TypeOK
<1> QED BY <1>1, <1>2

\* So does the start of the next run.
LEMMA RestartTyped ==
  ASSUME TypeOK, NEW d \in [Copy -> Stored], Restart(d)
  PROVE  TypeOK'
<1>1. Found(d) \in Env \cup {Bad}
  BY ReadTyped DEF Found, Decoded
<1> QED BY <1>1 DEF Restart, TypeOK, Touched, Copy

\* How every step of the handlers goes about the cache: an error, a write of a
\* changed environment that was read, a write of a fresh one, or nothing.
LEMMA HandlerSteps ==
  ASSUME TypeOK,
         uboot_setenv_run \/ uboot_unsetenv_run \/ uboot_clearenv_run \/ uboot_recover_run
  PROVE  /\ ~failed
         /\ \/ Fail
            \/ \E data \in Env : /\ uboot_env_read(cache).ok
                                 /\ uboot_env_write([uboot_env_read(cache) EXCEPT !.data = data])
            \/ uboot_env_write(uboot_env_create_cfg)
            \/ recent' = Touched /\ UNCHANGED <<disk, cache, dirty, failed, updates, batch,
                                                cleared, last, accepted>>
<1> DEFINE env == uboot_env_read(cache)
<1>1. env \in Decoded /\ (env.ok => env.data # Bad)
  BY ReadTyped DEF TypeOK
<1>2. ASSUME NEW n \in Names, NEW v \in Vals \cup {Unset}, Update(n, v)
      PROVE  \/ Fail
             \/ \E data \in Env : /\ uboot_env_read(cache).ok
                                  /\ uboot_env_write([uboot_env_read(cache) EXCEPT !.data = data])
  <2>1. CASE ~env.ok
    BY <1>2, <2>1 DEF Update
  <2>2. CASE env.ok /\ ~Fail
    <3>1. [env.data EXCEPT ![n] = v] \in Env
      BY <1>1, <2>2 DEF Decoded, Env
    <3>2. uboot_env_write([env EXCEPT !.data = [env.data EXCEPT ![n] = v]])
      BY <1>2, <2>2 DEF Update
    <3> QED BY <2>2, <3>1, <3>2
  <2> QED BY <2>1, <2>2
<1>3. CASE uboot_setenv_run
  BY <1>2, <1>3 DEF uboot_setenv_run, Running
<1>4. CASE uboot_unsetenv_run
  BY <1>2, <1>4 DEF uboot_unsetenv_run, Running
<1>5. CASE uboot_clearenv_run
  BY <1>5 DEF uboot_clearenv_run, Running
<1>6. CASE uboot_recover_run
  BY <1>6 DEF uboot_recover_run, Running
<1> QED BY <1>3, <1>4, <1>5, <1>6

\* An interruption leaves typed copies.
LEMMA InterruptedTyped ==
  ASSUME TypeOK, Interrupted
  PROVE  \E d \in [Copy -> Stored] : Restart(d)
<1>1. CASE Restart(disk)
  BY <1>1 DEF TypeOK
<1>2. CASE ~Restart(disk)
  <2>1. PICK left \in [Copy -> UNION {Torn(disk[c], cache[c]) : c \in Copy}] : Restart(left)
    BY <1>2 DEF Interrupted
  <2>2. \A c \in Copy : Torn(disk[c], cache[c]) \subseteq Stored
    BY TornTyped DEF TypeOK
  <2> QED BY <2>1, <2>2
<1> QED BY <1>1, <1>2

\* Every step keeps the types.
LEMMA StepTyped == TypeOK /\ [Next]_vars => TypeOK'
<1> SUFFICES ASSUME TypeOK, [Next]_vars PROVE TypeOK'
  OBVIOUS
<1>1. CASE uboot_setenv_run \/ uboot_unsetenv_run \/ uboot_clearenv_run \/ uboot_recover_run
  <2>1. CASE Fail
    BY <2>1, FailTyped
  <2>2. ASSUME NEW data \in Env, uboot_env_write([uboot_env_read(cache) EXCEPT !.data = data])
        PROVE  TypeOK'
    <3>1. [uboot_env_read(cache) EXCEPT !.data = data] \in Decoded
          /\ [uboot_env_read(cache) EXCEPT !.data = data].data = data
      BY ReadTyped DEF TypeOK, Decoded
    <3> QED BY <2>2, <3>1, WriteTyped
  <2>3. CASE uboot_env_write(uboot_env_create_cfg)
    <3>1. uboot_env_create_cfg.data \in Env
      BY CreateTyped DEF uboot_env_create_cfg
    <3> QED BY <2>3, <3>1, CreateTyped, WriteTyped
  <2>4. CASE recent' = Touched /\ UNCHANGED <<disk, cache, dirty, failed, updates, batch,
                                              cleared, last, accepted>>
    BY <2>4 DEF TypeOK, Touched, Copy
  <2> QED BY <1>1, <2>1, <2>2, <2>3, <2>4, HandlerSteps
<1>2. CASE WriteBack
  BY <1>2 DEF WriteBack, TypeOK
<1>3. CASE Interrupted
  BY <1>3, InterruptedTyped, RestartTyped
<1>4. CASE UNCHANGED vars
  BY <1>4 DEF vars, TypeOK
<1> QED BY <1>1, <1>2, <1>3, <1>4 DEF Next

\* The initial copies have the right types.
LEMMA InitTyped == Init => TypeOK
<1> SUFFICES ASSUME Init PROVE TypeOK
  OBVIOUS
<1>1. disk \in [Copy -> Stored] /\ cache = disk
  BY StartTyped DEF Init
<1>2. Found(disk) \in Env \cup {Bad}
  BY <1>1, ReadTyped DEF Found, Decoded
<1> QED BY <1>1, <1>2 DEF Init, TypeOK, Touched, Copy

\* Type correctness of the copies, the cached ones and the history.
THEOREM UbootTypes == Spec => []TypeOK
BY InitTyped, StepTyped, PTL DEF Spec

----------------------------------------------------------------------------
(* The newest environment is the one that is found                         *)

\* A successful read with two copies names one copy to write, and the counter
\* of the other.
LEMMA ReadNames ==
  ASSUME NEW s \in [Copy -> Stored], UseRedundant, uboot_env_read(s).ok
  PROVE  \E w \in Copy : /\ uboot_env_read(s).writes = {w}
                         /\ uboot_env_read(s).flags = s[Other(w)].flag
                         /\ s[Other(w)].data # Bad /\ Found(s) = s[Other(w)].data
<1> USE DEF Found
<1> DEFINE c == Preferred(s)
<1>1. c \in Copy /\ Other(c) \in Copy /\ Other(Other(c)) = c
  BY TwoCopies DEF Preferred, Copy
<1>2. CASE s[c].data # Bad
  BY <1>1, <1>2 DEF uboot_env_read, uboot_env_read_redundant
<1>3. CASE s[c].data = Bad
  <2>1. s[Other(c)].data # Bad
    BY <1>3 DEF uboot_env_read, uboot_env_read_redundant
  <2>2. /\ uboot_env_read(s).writes = {c} /\ uboot_env_read(s).flags = s[Other(c)].flag
        /\ uboot_env_read(s).data = s[Other(c)].data
    BY <1>3, <2>1 DEF uboot_env_read, uboot_env_read_redundant
  <2> QED BY <1>1, <2>1, <2>2
<1> QED BY <1>2, <1>3

\* A good copy that is preferred is what is found.
LEMMA PreferredFound ==
  ASSUME NEW s, NEW w, UseRedundant, Preferred(s) = w, s[w].data # Bad
  PROVE  Found(s) = s[w].data
<1>1. uboot_env_read(s) = uboot_env_read_redundant(s)
  BY DEF uboot_env_read
<1>2. uboot_env_read_redundant(s) =
        [ok |-> TRUE, data |-> s[w].data, flags |-> s[w].flag, writes |-> {Other(w)}]
  BY DEF uboot_env_read_redundant
<1> QED BY <1>1, <1>2 DEF Found

\* What the copies hold after an update is found by the next read.
LEMMA UpdateFound ==
  ASSUME TypeOK, NEW data \in Env, uboot_env_read(cache).ok,
         uboot_env_write([uboot_env_read(cache) EXCEPT !.data = data]), ~Fail
  PROVE  Found(cache') = data /\ last' = data
<1> DEFINE env == uboot_env_read(cache)
           new == [env EXCEPT !.data = data]
<1>1. cache \in [Copy -> Stored] /\ env \in Decoded
  BY ReadTyped DEF TypeOK
<1>2. /\ new \in Decoded
      /\ new.data = data /\ new.flags = env.flags /\ new.writes = env.writes
  BY <1>1 DEF Decoded
<1>3. /\ cache' = [c \in Copy |-> IF c \in new.writes THEN Encoded(new) ELSE cache[c]]
      /\ last' = new.data
  BY DEF uboot_env_write
<1>4. Encoded(new) \in Stored /\ Encoded(new).data = data /\ data # Bad
  BY <1>2, EncodedTyped, UbootAssumption DEF Encoded
<1>5. cache' \in [Copy -> Stored]
  BY <1>1, <1>3, <1>4
<1>6. CASE UseRedundant
  <2>1. PICK w \in Copy : env.writes = {w} /\ env.flags = cache[Other(w)].flag
    BY <1>1, <1>6, ReadNames
  <2>2. cache'[w] = Encoded(new) /\ cache'[Other(w)] = cache[Other(w)]
    BY <1>2, <1>3, <2>1, TwoCopies
  <2>3. Encoded(new).flag = (cache'[Other(w)].flag + 1) % 256
    BY <1>2, <1>6, <2>1, <2>2 DEF Encoded
  <2>4. Preferred(cache') = w
    BY <1>5, <2>2, <2>3, PreferredAfterUpdate
  <2>5. cache'[w].data = data
    BY <1>4, <2>2
  <2>6. Found(cache') = data
    BY <1>4, <1>6, <2>4, <2>5, PreferredFound
  <2>7. last' = data
    BY <1>2, <1>3
  <2> QED BY <2>6, <2>7
<1>7. CASE ~UseRedundant
  <2>1. env.writes = {"primary"} /\ "primary" \in Copy
    BY <1>7 DEF uboot_env_read, uboot_env_read_non_redundant, Copy
  <2>2. cache'["primary"] = Encoded(new)
    BY <1>2, <1>3, <2>1
  <2> QED BY <1>2, <1>3, <1>4, <1>7, <2>2 DEF Found, uboot_env_read, uboot_env_read_non_redundant
<1> QED BY <1>6, <1>7

\* The same for the fresh environment of uboot_clearenv and uboot_recover.
LEMMA CreateFound ==
  ASSUME TypeOK, uboot_env_write(uboot_env_create_cfg), ~Fail
  PROVE  Found(cache') = Empty /\ last' = Empty
<1> DEFINE env == uboot_env_create_cfg
<1>1. env.data = Empty /\ env.writes = IF UseRedundant THEN Copy ELSE {"primary"}
  BY DEF uboot_env_create_cfg
<1>2. /\ cache' = [c \in Copy |-> IF c \in env.writes THEN Encoded(env) ELSE cache[c]]
      /\ last' = env.data
  BY DEF uboot_env_write
<1>3. Encoded(env).data = Empty
  BY <1>1 DEF Encoded
<1>4. CASE UseRedundant
  <2>1. \A c \in Copy : cache'[c].data = Empty
    BY <1>1, <1>2, <1>3, <1>4
  <2>2. Preferred(cache') \in Copy /\ Other(Preferred(cache')) \in Copy
    BY TwoCopies DEF Preferred, Copy
  <2> QED BY <1>1, <1>2, <1>4, <2>1, <2>2 DEF Found, uboot_env_read, uboot_env_read_redundant
<1>5. CASE ~UseRedundant
  <2>1. cache'["primary"].data = Empty
    BY <1>1, <1>2, <1>3, <1>5 DEF Copy
  <2> QED BY <1>1, <1>2, <1>5, <2>1 DEF Found, uboot_env_read, uboot_env_read_non_redundant
<1> QED BY <1>4, <1>5

\* Every step leaves what the next read finds equal to the last update.
LEMMA StepFound == TypeOK /\ ReadsLastUpdate /\ [Next]_vars => ReadsLastUpdate'
<1> SUFFICES ASSUME TypeOK, ReadsLastUpdate, [Next]_vars PROVE ReadsLastUpdate'
  OBVIOUS
<1> USE DEF ReadsLastUpdate
<1>f. ASSUME Fail PROVE Found(cache') = last'
  BY <1>f DEF Fail
<1>1. CASE uboot_setenv_run \/ uboot_unsetenv_run \/ uboot_clearenv_run \/ uboot_recover_run
  <2>1. CASE recent' = Touched /\ UNCHANGED <<disk, cache, dirty, failed, updates, batch,
                                              cleared, last, accepted>>
    BY <2>1
  <2> QED BY <1>1, <1>f, <2>1, HandlerSteps, UpdateFound, CreateFound
<1>2. CASE WriteBack
  BY <1>2 DEF WriteBack
<1>3. CASE Interrupted
  BY <1>3, InterruptedTyped DEF Restart
<1>4. CASE UNCHANGED vars
  BY <1>4 DEF vars
<1> QED BY <1>1, <1>2, <1>3, <1>4 DEF Next

\* Whatever copies the updates went to, and wherever the one-byte counter
\* stands, a read finds what the last handler wrote.
THEOREM NewestIsFound == Spec => []ReadsLastUpdate
<1>1. Init => ReadsLastUpdate
  BY DEF Init, ReadsLastUpdate
<1> QED BY <1>1, StepFound, UbootTypes, PTL DEF Spec

----------------------------------------------------------------------------
(* An interrupted run leaves an environment that was asked for             *)

\* A copy that does not decode is passed over.
LEMMA BadPassedOver ==
  ASSUME NEW s \in [Copy -> Stored], NEW w \in Copy, UseRedundant,
         s[w].data = Bad, s[Other(w)].data # Bad
  PROVE  Found(s) = s[Other(w)].data
<1>1. Preferred(s) = w \/ Preferred(s) = Other(w)
  BY TwoCopies DEF Preferred, Copy
<1> QED BY <1>1, TwoCopies DEF Found, uboot_env_read, uboot_env_read_redundant

\* With one update pending, whatever reaches the media of the copy it goes to,
\* an accepted environment is found.
LEMMA LandsAccepted ==
  ASSUME UInv, UseRedundant, ~cleared, batch <= 1, NEW w \in Copy, PendingIn(w),
         NEW d \in [Copy -> Stored], d[Other(w)] = disk[Other(w)],
         d[w] \in Torn(disk[w], cache[w])
  PROVE  Found(d) \in accepted
<1>0. /\ disk \in [Copy -> Stored] /\ cache \in [Copy -> Stored]
      /\ Found(disk) \in accepted /\ disk[Other(w)].data \in accepted
      /\ disk[Other(w)].data # Bad /\ cache[w].data \in accepted
      /\ cache[w].flag = (disk[Other(w)].flag + 1) % 256
  BY DEF UInv, TypeOK, OnePending, PendingIn
<1>1. CASE d[w] = disk[w]
  <2>1. \A c \in Copy : d[c] = disk[c]
    BY <1>1, TwoCopies DEF Copy
  <2>2. d = disk
    BY <1>0, <2>1
  <2> QED BY <1>0, <2>2
<1>2. CASE d[w].data = Bad
  BY <1>0, <1>2, BadPassedOver
<1>3. CASE d[w] = cache[w] /\ d[w].data # Bad
  <2>1. Preferred(d) = w
    BY <1>0, <1>3, PreferredAfterUpdate
  <2> QED BY <1>0, <1>3, <2>1 DEF Found, uboot_env_read, uboot_env_read_redundant
<1> QED BY <1>1, <1>2, <1>3 DEF Torn

\* One step, of whatever kind.
LEMMA StepAtomic ==
  ASSUME UInv, Next, UseRedundant, ~cleared, batch <= 1
  PROVE  Found(disk') \in accepted
<1>0. /\ disk \in [Copy -> Stored] /\ cache \in [Copy -> Stored] /\ TypeOK
      /\ Found(disk) \in accepted
      /\ dirty = {} \/ \E w \in Copy : PendingIn(w)
  BY DEF UInv, TypeOK, OnePending
<1>1. CASE disk' = disk
  BY <1>0, <1>1
<1>2. CASE WriteBack
  <2>1. PICK w \in Copy : PendingIn(w)
    BY <1>0, <1>2 DEF WriteBack
  <2>2. /\ disk' \in [Copy -> Stored]
        /\ disk'[w] \in {disk[w], cache[w]}
        /\ disk'[Other(w)] \in {disk[Other(w)], cache[Other(w)]}
    BY <1>0, <1>2, TwoCopies DEF WriteBack
  <2>3. cache[Other(w)] = disk[Other(w)]
    BY <2>1, TwoCopies DEF UInv, Settled, PendingIn
  <2>4. disk'[w] \in Torn(disk[w], cache[w])
    BY <2>2 DEF Torn
  <2> QED BY <2>1, <2>2, <2>3, <2>4, LandsAccepted
<1>3. CASE Interrupted /\ disk' # disk
  <2>1. PICK left \in [Copy -> UNION {Torn(disk[c], cache[c]) : c \in Copy}] :
          /\ \A c \in Copy : left[c] \in IF c \in Outgoing THEN Torn(disk[c], cache[c])
                                         ELSE {disk[c]}
          /\ Restart(left)
    BY <1>3 DEF Interrupted, Restart
  <2>2. disk' = left /\ dirty # {}
    BY <1>3, <2>1 DEF Interrupted, Restart
  <2>3. PICK w \in Copy : PendingIn(w)
    BY <1>0, <2>2
  <2>4. \A c \in Copy : Torn(disk[c], cache[c]) \subseteq Stored /\ disk[c] \in Torn(disk[c], cache[c])
    BY <1>0, TornTyped DEF Torn
  <2>5. left \in [Copy -> Stored]
    BY <2>1, <2>4
  <2>6. left[w] \in Torn(disk[w], cache[w])
    BY <2>1, <2>4
  <2>7. cache[Other(w)] = disk[Other(w)] /\ Other(w) \in Copy
    BY <2>3, TwoCopies DEF UInv, Settled, PendingIn
  <2>8. left[Other(w)] = disk[Other(w)]
    BY <2>1, <2>7 DEF Torn
  <2> QED BY <2>2, <2>3, <2>5, <2>6, <2>8, LandsAccepted
<1>4. CASE uboot_setenv_run \/ uboot_unsetenv_run \/ uboot_clearenv_run \/ uboot_recover_run
  BY <1>0, <1>1, <1>4, HandlerSteps DEF Fail, uboot_env_write
<1> QED BY <1>1, <1>2, <1>3, <1>4 DEF Next

\* A write of the cache keeps what is clean as it is.
LEMMA WriteSettled ==
  ASSUME UInv, ~failed, NEW env \in Decoded, uboot_env_write(env), ~Fail
  PROVE  Settled'
<1>1. /\ cache' = [c \in Copy |-> IF c \in env.writes THEN Encoded(env) ELSE cache[c]]
      /\ dirty' = dirty \cup env.writes /\ disk' = disk
      /\ batch' = batch + 1 /\ failed' = failed
      /\ last' = env.data /\ accepted' = accepted \cup {env.data}
  BY DEF uboot_env_write
<1>2. batch \in Nat
  BY DEF UInv, TypeOK
<1> QED BY <1>1, <1>2 DEF UInv, Settled

\* A first update leaves exactly one copy pending.
LEMMA UpdatePending ==
  ASSUME UInv, ~failed, NEW data \in Env, uboot_env_read(cache).ok,
         uboot_env_write([uboot_env_read(cache) EXCEPT !.data = data]), ~Fail
  PROVE  OnePending'
<1> DEFINE env == uboot_env_read(cache)
           new == [env EXCEPT !.data = data]
<1>1. TypeOK /\ cache \in [Copy -> Stored] /\ batch \in Nat /\ env \in Decoded
  BY ReadTyped DEF UInv, TypeOK
<1>2. new.data = data /\ new.flags = env.flags /\ new.writes = env.writes
  BY <1>1 DEF Decoded
<1>3. /\ cache' = [c \in Copy |-> IF c \in new.writes THEN Encoded(new) ELSE cache[c]]
      /\ dirty' = dirty \cup new.writes /\ disk' = disk
      /\ batch' = batch + 1 /\ cleared' = (cleared \/ new.writes = Copy)
      /\ accepted' = accepted \cup {new.data}
  BY DEF uboot_env_write
<1> SUFFICES ASSUME UseRedundant, ~cleared', batch' <= 1
             PROVE  /\ Found(disk) \in accepted'
                    /\ \E w \in Copy : PendingIn(w)'
  BY <1>3 DEF OnePending, Found
<1>4. batch = 0 /\ ~cleared
  <2>1. batch = 0
    BY <1>1, <1>3
  <2>2. ~cleared
    BY <1>3, Zenon
  <2> QED BY <2>1, <2>2
<1>5. dirty = {} /\ Found(disk) \in accepted
  BY <1>4 DEF UInv, Settled, OnePending
<1>6. cache = disk
  <2>1. \A c \in Copy : cache[c] = disk[c]
    BY <1>5 DEF UInv, Settled
  <2> QED BY <1>1, <2>1 DEF TypeOK
<1>7. PICK w \in Copy : /\ env.writes = {w} /\ env.flags = cache[Other(w)].flag
                        /\ cache[Other(w)].data # Bad /\ Found(cache) = cache[Other(w)].data
  BY <1>1, ReadNames
<1>8. cache'[w] = Encoded(new) /\ dirty' = {w}
  BY <1>2, <1>3, <1>5, <1>7
<1>9. Encoded(new).flag = (disk[Other(w)].flag + 1) % 256 /\ Encoded(new).data = data
  BY <1>2, <1>6, <1>7 DEF Encoded
<1>10. PendingIn(w)'
  BY <1>2, <1>3, <1>6, <1>7, <1>8, <1>9 DEF PendingIn
<1> QED BY <1>3, <1>5, <1>10

\* Writing back a segment: what becomes clean is on the media, and once all is
\* clean the media holds the last update.
LEMMA WriteBackInv == UInv /\ WriteBack => Settled' /\ OnePending'
<1> SUFFICES ASSUME UInv, WriteBack PROVE Settled' /\ OnePending'
  OBVIOUS
<1>0. /\ disk \in [Copy -> Stored] /\ cache \in [Copy -> Stored] /\ dirty \subseteq Copy
      /\ recent \in Copy /\ dirty # {} /\ ~failed /\ batch # 0 /\ batch \in Nat
      /\ last \in accepted /\ Found(cache) = last
  BY DEF UInv, TypeOK, Settled, ReadsLastUpdate, WriteBack
<1>1. /\ disk' = [c \in Copy |-> IF c \in Outgoing THEN cache[c] ELSE disk[c]]
      /\ dirty' = dirty \ Outgoing
      /\ batch' = IF dirty' = {} THEN 0 ELSE batch
      /\ cleared' = (cleared /\ dirty' # {})
      /\ UNCHANGED <<cache, recent, failed, updates, last, accepted>>
  BY DEF WriteBack
<1>2. \A c \in Copy \ dirty' : cache[c] = disk'[c]
  BY <1>1 DEF UInv, Settled
<1>3. Settled'
  BY <1>0, <1>1, <1>2 DEF Settled
<1>4. CASE dirty' = {}
  <2>1. disk' = cache
    BY <1>0, <1>1, <1>2, <1>4
  <2> QED BY <1>0, <1>1, <1>3, <1>4, <2>1 DEF OnePending, Found
<1>5. CASE dirty' # {}
  <2>1. ~(UseRedundant /\ ~cleared' /\ batch' <= 1)
    <3> SUFFICES ASSUME UseRedundant, ~cleared', batch' <= 1 PROVE FALSE
      OBVIOUS
    <3>1. batch <= 1
      BY <1>1, <1>5
    <3>2. ~cleared
      BY <1>1, <1>5, Zenon
    <3>3. PICK w \in Copy : dirty = {w}
      BY <1>0, <3>1, <3>2 DEF UInv, OnePending, PendingIn
    <3>4. w \in Outgoing
      BY <1>0, <3>3, TwoCopies DEF Outgoing, Copy
    <3> QED BY <1>1, <1>5, <3>3, <3>4
  <2> QED BY <1>3, <2>1 DEF OnePending
<1> QED BY <1>4, <1>5

\* Every step keeps the inductive invariant.
LEMMA StepUInv == UInv /\ [Next]_vars => UInv'
<1> SUFFICES ASSUME UInv, [Next]_vars PROVE UInv'
  OBVIOUS
<1>0. TypeOK' /\ ReadsLastUpdate' /\ TypeOK
  BY StepTyped, StepFound DEF UInv
<1>1. CASE uboot_setenv_run \/ uboot_unsetenv_run \/ uboot_clearenv_run \/ uboot_recover_run
  <2>0. ~failed
    BY <1>0, <1>1, HandlerSteps
  <2>1. CASE Fail
    BY <1>0, <2>1 DEF Fail, UInv, Settled, OnePending, Found
  <2>2. ASSUME NEW data \in Env, uboot_env_read(cache).ok, ~Fail,
               uboot_env_write([uboot_env_read(cache) EXCEPT !.data = data])
        PROVE  UInv'
    <3>1. [uboot_env_read(cache) EXCEPT !.data = data] \in Decoded
      BY <1>0, ReadTyped DEF TypeOK, Decoded
    <3> QED BY <1>0, <2>0, <2>2, <3>1, WriteSettled, UpdatePending DEF UInv
  <2>3. CASE uboot_env_write(uboot_env_create_cfg) /\ ~Fail
    <3>1. Settled'
      BY <2>0, <2>3, CreateTyped, WriteSettled
    <3>2. cleared' = (cleared \/ uboot_env_create_cfg.writes = Copy)
      BY <2>3 DEF uboot_env_write
    <3>3. UseRedundant => uboot_env_create_cfg.writes = Copy
      BY DEF uboot_env_create_cfg
    <3>4. UseRedundant => cleared'
      BY <3>2, <3>3, Zenon
    <3> QED BY <1>0, <3>1, <3>4 DEF UInv, OnePending
  <2>4. CASE recent' = Touched /\ UNCHANGED <<disk, cache, dirty, failed, updates, batch,
                                              cleared, last, accepted>>
    BY <1>0, <2>4 DEF UInv, Settled, OnePending, PendingIn, Found
  <2> QED BY <1>0, <1>1, <2>1, <2>2, <2>3, <2>4, HandlerSteps
<1>2. CASE WriteBack
  BY <1>0, <1>2, WriteBackInv DEF UInv
<1>3. CASE Interrupted
  <2>1. PICK d \in [Copy -> Stored] : Restart(d)
    BY <1>0, <1>3, InterruptedTyped
  <2>2. /\ disk' = d /\ cache' = d /\ dirty' = {} /\ accepted' = {Found(d)} /\ last' = Found(d)
    BY <2>1 DEF Restart
  <2> QED BY <1>0, <2>2 DEF UInv, Settled, OnePending, Found
<1>4. CASE UNCHANGED vars
  BY <1>0, <1>4 DEF vars, UInv, Settled, OnePending, PendingIn, Found
<1> QED BY <1>1, <1>2, <1>3, <1>4 DEF Next

\* It holds initially.
LEMMA InitUInv == Init => UInv
<1> SUFFICES ASSUME Init PROVE UInv
  OBVIOUS
<1>1. TypeOK
  BY InitTyped
<1> QED BY <1>1 DEF Init, UInv, ReadsLastUpdate, Settled, OnePending

\* What waits in the cache is at most one step ahead of the media, for every
\* set of variables, capacity and starting counters.
THEOREM PendingInvariant == Spec => []UInv
<1> QED BY InitUInv, StepUInv, PTL DEF Spec

\* With redundant copies, a run cut off at any moment while one update waits
\* leaves the environment it started from or one that it set.
THEOREM InterruptedAtomic == Spec => CrashAtomic
<1>1. UInv /\ [Next]_vars =>
        [(UseRedundant /\ ~cleared /\ batch <= 1) => Found(disk') \in accepted]_vars
  BY StepAtomic
<1> QED BY <1>1, InitUInv, StepUInv, PTL DEF Spec, CrashAtomic

\* With two good copies in segments of their own, cutting a run off never
\* leaves both unreadable.
THEOREM InterruptedReadable == Spec => NeverUnreadable
<1> DEFINE Good == UseRedundant /\ ~SameSegment /\ \A c \in Copy : disk[c].data # Bad
<1>1. TypeOK /\ [Next]_vars => [Good => Found(disk') # Bad]_vars
  <2> SUFFICES ASSUME TypeOK, Next, Good PROVE Found(disk') # Bad
    OBVIOUS
  <2>1. /\ disk \in [Copy -> Stored] /\ cache \in [Copy -> Stored]
        /\ Outgoing = {recent} \/ Outgoing = {Other(recent)}
        /\ recent \in Copy
    BY DEF TypeOK, Outgoing
  <2>2. PICK w \in Copy : Outgoing = {w}
    BY <2>1, TwoCopies
  <2>3. ASSUME NEW d \in [Copy -> Stored], d[Other(w)] = disk[Other(w)]
        PROVE  Found(d) # Bad
    <3>1. d[Other(w)].data # Bad /\ Other(w) \in Copy
      BY <2>3, TwoCopies
    <3>2. CASE d[w].data = Bad
      BY <2>3, <3>1, <3>2, BadPassedOver
    <3>3. CASE d[w].data # Bad
      <4>1. Preferred(d) = w \/ Preferred(d) = Other(w)
        BY TwoCopies DEF Preferred, Copy
      <4> QED BY <3>1, <3>3, <4>1 DEF Found, uboot_env_read, uboot_env_read_redundant
    <3> QED BY <3>2, <3>3
  <2>4. disk' \in [Copy -> Stored] /\ disk'[Other(w)] = disk[Other(w)]
    <3>1. disk' \in [Copy -> Stored]
      BY StepTyped DEF TypeOK
    <3>2. CASE disk' = disk
      BY <3>1, <3>2
    <3>3. CASE WriteBack
      BY <2>2, <3>1, <3>3, TwoCopies DEF WriteBack
    <3>4. CASE Interrupted /\ disk' # disk
      BY <2>2, <3>1, <3>4, TwoCopies DEF Interrupted, Restart
    <3>5. CASE uboot_setenv_run \/ uboot_unsetenv_run \/ uboot_clearenv_run \/ uboot_recover_run
      BY <3>2, <3>5, HandlerSteps DEF Fail, uboot_env_write
    <3> QED BY <3>2, <3>3, <3>4, <3>5 DEF Next
  <2> QED BY <2>3, <2>4
<1> QED BY <1>1, UbootTypes, PTL DEF Spec, NeverUnreadable

----------------------------------------------------------------------------
(* The trim bit vector                                                     *)

----------------------------------------------------------------------------
(* Division                                                                *)

\* A number is its quotient times d plus its remainder.
LEMMA DivMod ==
  ASSUME NEW x \in Int, NEW d \in Nat \ {0}
  PROVE  /\ x \div d \in Int
         /\ (x % d) \in 0 .. d - 1
         /\ (x \div d) * d + (x % d) = x
         /\ x \in Nat => x \div d \in Nat
<1>1. x \div d \in Int
  OBVIOUS
<1>2. (x % d) \in 0 .. d - 1
  OBVIOUS
<1>3. (x \div d) * d + (x % d) = x
  OBVIOUS
<1>4. x \in Nat => x \div d \in Nat
  OBVIOUS
<1> QED BY <1>1, <1>2, <1>3, <1>4

LEMMA DivNat ==
  ASSUME NEW x \in Nat, NEW d \in Nat \ {0}
  PROVE  x \div d \in Nat /\ (x % d) \in 0 .. d - 1
OBVIOUS

\* Multiples of d keep the order, with a gap of d.
LEMMA Multiples ==
  ASSUME NEW p \in Int, NEW q \in Int, NEW d \in Nat \ {0}
  PROVE  /\ p * d \in Int
         /\ p < q => p * d + d <= q * d
         /\ p <= q => p * d <= q * d
OBVIOUS

\* Numbers are ordered as their quotients, and as their remainders where the
\* quotients agree: segments as byte and bit.
LEMMA DivOrder ==
  ASSUME NEW x \in Int, NEW y \in Int, NEW d \in Nat \ {0}
  PROVE  x < y <=> x \div d < y \div d \/ (x \div d = y \div d /\ (x % d) < (y % d))
<1> DEFINE p == x \div d
           q == y \div d
           a == x % d
           b == y % d
           dp == p * d
           dq == q * d
<1>1. p \in Int /\ q \in Int /\ a \in 0 .. d - 1 /\ b \in 0 .. d - 1 /\ x = dp + a /\ y = dq + b
  BY DivMod
<1>2. dp \in Int /\ dq \in Int /\ (p < q => dp + d <= dq) /\ (q < p => dq + d <= dp) /\ (p = q => dp = dq)
  BY <1>1, Multiples
<1> HIDE DEF p, q, a, b, dp, dq
<1>3. x < y <=> p < q \/ (p = q /\ a < b)
  BY <1>1, <1>2
<1> QED BY <1>3 DEF p, q, a, b

\* The largest multiple of d up to x.
LEMMA Floor ==
  ASSUME NEW x \in Int, NEW s \in Int, NEW d \in Nat \ {0}
  PROVE  s * d <= x <=> s <= x \div d
<1> DEFINE p == x \div d
           a == x % d
           dp == p * d
           ds == s * d
<1>1. p \in Int /\ a \in 0 .. d - 1 /\ x = dp + a
  BY DivMod
<1>2. dp \in Int /\ ds \in Int /\ (p < s => dp + d <= ds) /\ (s <= p => ds <= dp)
  BY <1>1, Multiples
<1> HIDE DEF p, a, dp, ds
<1>3. ds <= x <=> s <= p
  BY <1>1, <1>2
<1> QED BY <1>3 DEF p, ds

\* The smallest multiple of d from x on: rounding up as the code does it.
LEMMA Ceiling ==
  ASSUME NEW x \in Int, NEW s \in Int, NEW d \in Nat \ {0}
  PROVE  x <= s * d <=> (x + d - 1) \div d <= s
<1> DEFINE y == x + d - 1
           p == y \div d
           a == y % d
           dp == p * d
           ds == s * d
<1>1. y \in Int /\ y = x + d - 1
  OBVIOUS
<1>2. p \in Int /\ a \in 0 .. d - 1 /\ y = dp + a
  BY <1>1, DivMod
<1>3. dp \in Int /\ ds \in Int /\ (s < p => ds + d <= dp) /\ (p <= s => dp <= ds)
  BY <1>2, Multiples
<1> HIDE DEF y, p, a, dp, ds
<1>4. x <= ds <=> p <= s
  BY <1>1, <1>2, <1>3
<1> QED BY <1>4 DEF p, ds, y

\* Dividing a number less a multiple of d.
LEMMA DivShift ==
  ASSUME NEW x \in Int, NEW a \in Int, NEW d \in Nat \ {0}
  PROVE  /\ (x - a * d) \div d = (x \div d) - a
         /\ (a * d) \div d = a
<1>1. a * d \in Int /\ x \div d \in Int /\ (a * d) \div d \in Int /\ (x - a * d) \div d \in Int
  BY DivMod
<1>2. (a * d) \div d = a
  <2>1. a <= (a * d) \div d
    BY <1>1, Floor
  <2>2. ~((a + 1) <= (a * d) \div d)
    <3>1. ~((a + 1) * d <= a * d)
      OBVIOUS
    <3> QED BY <3>1, <1>1, Floor
  <2> QED BY <2>1, <2>2, <1>1
<1>3. ASSUME NEW s \in Int
      PROVE  s <= (x - a * d) \div d <=> s <= (x \div d) - a
  <2>1. s <= (x - a * d) \div d <=> s * d <= x - a * d
    BY <1>1, Floor
  <2>2. (s + a) * d = s * d + a * d /\ s * d \in Int
    OBVIOUS
  <2>3. (s + a) * d <= x <=> s + a <= x \div d
    BY Floor
  <2> QED BY <2>1, <2>2, <2>3, <1>1
<1>4. (x - a * d) \div d <= (x \div d) - a /\ (x \div d) - a <= (x - a * d) \div d
  BY <1>1, <1>3
<1> QED BY <1>1, <1>2, <1>4

----------------------------------------------------------------------------
(* Bytes and bits                                                          *)

LEMMA Sizes ==
  /\ B \in Nat \ {0} /\ Bits \in Nat \ {0} /\ StartLen \in Nat \ {0} /\ Unit \in Nat \ {0}
  /\ EndOffset \in Nat /\ MaxSeg \in Nat
BY VectorAssumption

\* The masks of the first and the last byte, and the whole bytes between them,
\* are the segments begin .. end - 1 and no other.
LEMMA MaskExact ==
  ASSUME NEW s \in Nat, NEW begin \in Nat, NEW end \in Nat, begin <= end
  PROVE  (s % Bits) \in SetBits(s \div Bits, begin, end) <=> begin <= s /\ s < end
<1> DEFINE i == s \div Bits
           p == begin \div Bits
           q == end \div Bits
           c == s % Bits
           a == begin % Bits
           b == end % Bits
<1>1. i \in Int /\ p \in Int /\ q \in Int /\ c \in Byte /\ a \in Byte /\ b \in Byte
  BY Sizes, DivMod DEF Byte
<1>2. /\ s < begin <=> i < p \/ (i = p /\ c < a)
      /\ s < end <=> i < q \/ (i = q /\ c < b)
      /\ end < begin <=> q < p \/ (q = p /\ b < a)
  <2>1. s \in Int /\ begin \in Int /\ end \in Int /\ Bits \in Nat \ {0}
    BY Sizes
  <2>2. s < begin <=> i < p \/ (i = p /\ c < a)
    BY <2>1, DivOrder, Zenon
  <2>3. s < end <=> i < q \/ (i = q /\ c < b)
    BY <2>1, DivOrder, Zenon
  <2>4. end < begin <=> q < p \/ (q = p /\ b < a)
    BY <2>1, DivOrder, Zenon
  <2> QED BY <2>2, <2>3, <2>4
<1>3. c \in SetBits(i, begin, end) <=>
        IF p = q THEN i = p /\ a <= c /\ c < b
        ELSE \/ i = p /\ a <= c
             \/ p < i /\ i < q
             \/ i = q /\ c < b
  BY <1>1 DEF SetBits
<1> HIDE DEF i, p, q, c, a, b
<1>4. Byte \subseteq Int
  BY Sizes DEF Byte
<1>5. ~(end < begin) /\ (~(s < begin) <=> begin <= s)
  OBVIOUS
<1>6. c \in SetBits(i, begin, end) <=> begin <= s /\ s < end
  BY <1>1, <1>2, <1>3, <1>4, <1>5
<1> QED BY <1>6 DEF i, c

\* Segment s is one of the first m * Bits exactly if its byte is one of the
\* first m.
LEMMA ByteBound ==
  ASSUME NEW s \in Nat, NEW m \in Int
  PROVE  s < m * Bits <=> s \div Bits < m
<1>1. m * Bits <= s <=> m <= s \div Bits
  BY Sizes, Floor
<1>2. m * Bits \in Int /\ s \div Bits \in Int
  BY Sizes, DivMod
<1> QED BY <1>1, <1>2

\* The bits of segment s in an array.
Bit(v, s) == (s % Bits) \in v[s \div Bits]

Arrays(n) == [0 .. n - 1 -> SUBSET Byte]

LEMMA ByteTyped ==
  ASSUME NEW s \in Nat
  PROVE  s \div Bits \in Nat /\ (s % Bits) \in Byte
BY Sizes, DivNat DEF Byte

\* A trim marks only segments that lie inside the range, and all of them that
\* the array tracked at the start.
LEMMA TrimExact ==
  ASSUME NEW n \in Nat, StartLen <= n, NEW v \in Arrays(n), NEW offset \in Nat, NEW count \in Nat
  PROVE  /\ Trim(v, offset, count) \in Arrays(n)
         /\ \A s \in Segs : s \div Bits < n =>
              /\ Bit(v, s) => Bit(Trim(v, offset, count), s)
              /\ Bit(Trim(v, offset, count), s) => Bit(v, s) \/ s \in Inside(offset, count)
              /\ s < StartLen * Bits /\ s \in Inside(offset, count) => Bit(Trim(v, offset, count), s)
<1> DEFINE a == (offset + B - 1) \div B
           e == (offset + count) \div B
           t == StartLen * Bits
           T == trimmed_end_offset
           aligned == ((offset + B - 1) \div B) * B
           left == ((count - (aligned - offset)) \div B) * B
           m == (T - offset) \div B
           adjusted == IF offset + left <= T THEN left ELSE T - offset
           begin == aligned \div B
           end == begin + (adjusted \div B)
           w == [i \in DOMAIN v |-> v[i] \cup SetBits(i, begin, end)]
<1>1. a \in Nat /\ e \in Nat /\ t \in Nat /\ T = t * B /\ T \in Nat
  <2>1. offset + B - 1 \in Nat /\ offset + count \in Nat
    BY Sizes
  <2>2. a \in Nat /\ e \in Nat
    BY <2>1, Sizes, DivNat
  <2>3. t \in Nat /\ T = t * B /\ t * B \in Nat
    BY Sizes DEF trimmed_end_offset
  <2> QED BY <2>2, <2>3
<1>2. Trim(v, offset, count) = IF left <= 0 \/ offset >= T THEN v ELSE w
  BY DEF Trim
<1>3. aligned = a * B /\ aligned \in Int /\ begin = a
  BY <1>1, Sizes, DivShift
<1>4. left = (e - a) * B /\ left \in Int /\ left \div B = e - a
  <2>1. count - (aligned - offset) = (offset + count) - a * B
    BY <1>3
  <2>2. ((offset + count) - a * B) \div B = e - a
    <3>1. offset + count \in Int /\ a \in Int
      BY <1>1
    <3> HIDE DEF a
    <3> QED BY <3>1, Sizes, DivShift
  <2>3. left = (e - a) * B
    BY <2>1, <2>2
  <2>4. e - a \in Int /\ (e - a) * B \in Int
    BY <1>1, Sizes
  <2>5. ((e - a) * B) \div B = e - a
    BY <2>4, Sizes, DivShift
  <2> QED BY <2>3, <2>4, <2>5
<1>5. left <= 0 <=> e <= a
  <2>1. 0 * B = 0 /\ e - a \in Int
    BY <1>1, Sizes
  <2>2. /\ 0 < e - a => 0 * B + B <= (e - a) * B
        /\ e - a <= 0 => (e - a) * B <= 0 * B
    BY <2>1, Sizes, Multiples
  <2> QED BY <2>1, <2>2, <1>1, <1>4, Sizes
<1>6. \A s \in Nat : offset <= s * B <=> a <= s
  BY Sizes, Ceiling
<1>7. \A s \in Nat : (s + 1) * B <= offset + count <=> s < e
  <2> TAKE s \in Nat
  <2>1. (s + 1) * B <= offset + count <=> s + 1 <= e
    BY Sizes, Floor
  <2> QED BY <2>1, <1>1
<1>8. Segs \subseteq Nat /\ \A s \in Segs : s \in Inside(offset, count) <=> a <= s /\ s < e
  BY <1>6, <1>7, Sizes DEF Inside, Segs
<1>9. \A s \in Segs : s < t <=> s * B < T
  <2> TAKE s \in Segs
  <2>1. s \in Int /\ t \in Int
    BY <1>1, Sizes DEF Segs
  <2>2. (s < t => s * B + B <= t * B) /\ (t <= s => t * B <= s * B) /\ s * B \in Int /\ t * B \in Int
    BY <2>1, Sizes, Multiples
  <2> QED BY <2>1, <2>2, <1>1, Sizes
<1>10. CASE left <= 0 \/ offset >= T
  <2>1. Trim(v, offset, count) = v
    BY <1>2, <1>10
  <2>2. \A s \in Segs : s < t => s \notin Inside(offset, count)
    <3> SUFFICES ASSUME NEW s \in Segs, s < t, s \in Inside(offset, count) PROVE FALSE
      OBVIOUS
    <3>1. a <= s /\ s < e /\ s \in Nat
      BY <1>8
    <3>2. offset <= s * B /\ s * B < T /\ s * B \in Int
      BY <3>1, <1>6, <1>9, Sizes
    <3> HIDE DEF a, e, left, T, t
    <3>3. offset < T
      BY <3>2, <1>1
    <3>4. ~(left <= 0)
      BY <3>1, <1>1, <1>5
    <3> QED BY <3>3, <3>4, <1>10, <1>1
  <2> QED BY <2>1, <2>2
<1>11. CASE ~(left <= 0 \/ offset >= T)
  <2>1. Trim(v, offset, count) = w
    BY <1>2, <1>11
  <2>2. a < e /\ offset < T
    <3> HIDE DEF a, e, left, T
    <3> QED BY <1>11, <1>1, <1>4, <1>5
  <2>3. adjusted \div B \in Nat /\ end = a + (adjusted \div B) /\ end \in Nat /\ a <= end
    <3>1. adjusted \in Nat
      <4> HIDE DEF left, T
      <4> QED BY <1>1, <1>4, <1>11
    <3>2. adjusted \div B \in Nat
      <4> HIDE DEF adjusted
      <4> QED BY <3>1, Sizes, DivNat
    <3>3. end = a + (adjusted \div B)
      BY <1>3
    <3> HIDE DEF adjusted, a, end
    <3> QED BY <3>2, <3>3, <1>1
  <2>4. end <= e
    <3>1. CASE offset + left <= T
      <4>1. adjusted = left
        BY <3>1
      <4> HIDE DEF adjusted, left, a, e, end
      <4> QED BY <4>1, <2>3, <1>4, <1>1
    <3>2. CASE ~(offset + left <= T)
      <4>1. adjusted = T - offset
        BY <3>2
      <4>2. T - offset < left /\ T - offset \in Int
        <5> HIDE DEF left, T
        <5> QED BY <3>2, <1>1, <1>4
      <4>3. ~((e - a) * B <= T - offset)
        <5> HIDE DEF left, T, a, e
        <5> QED BY <4>2, <1>4, <1>1
      <4>4. (e - a) * B <= T - offset <=> e - a <= (T - offset) \div B
        <5>1. e - a \in Int
          BY <1>1
        <5> HIDE DEF T, a, e
        <5> QED BY <5>1, <4>2, Sizes, Floor
      <4>5. adjusted \div B \in Int /\ adjusted \div B < e - a
        <5> HIDE DEF adjusted, T, a, e
        <5> QED BY <4>1, <4>3, <4>4, <2>3, <1>1
      <4> HIDE DEF adjusted, a, e, end
      <4> QED BY <4>5, <2>3, <1>1
    <3> QED BY <3>1, <3>2
  <2>5. \A s \in Segs : s < t /\ a <= s /\ s < e => s < end
    <3> TAKE s \in Segs
    <3>1. CASE offset + left <= T
      <4>1. adjusted = left
        BY <3>1
      <4> HIDE DEF adjusted, left, a, e, end, t
      <4> QED BY <4>1, <2>3, <1>4, <1>1
    <3>2. CASE ~(offset + left <= T)
      <4>1. adjusted = T - offset /\ T - offset \in Int
        BY <3>2, <1>1
      <4>2. offset <= a * B
        BY <1>1, <1>6
      <4>3. t - a \in Int /\ (t - a) * B = t * B - a * B /\ a * B \in Int /\ t * B \in Int
        <5> HIDE DEF t, a
        <5> QED BY <1>1, Sizes
      <4>4. (t - a) * B <= T - offset
        <5> HIDE DEF t, a, T
        <5> QED BY <4>2, <4>3, <1>1
      <4>5. t - a <= (T - offset) \div B
        <5> HIDE DEF t, a, T
        <5> QED BY <4>1, <4>3, <4>4, Sizes, Floor
      <4>6. t - a <= adjusted \div B
        <5> HIDE DEF adjusted, T, t, a
        <5> QED BY <4>1, <4>5
      <4> HIDE DEF adjusted, t, a, e, end
      <4> QED BY <4>6, <2>3, <1>1, <1>8
    <3> QED BY <3>1, <3>2
  <2>6. \A s \in Segs : (s % Bits) \in SetBits(s \div Bits, a, end) <=> a <= s /\ s < end
    <3> TAKE s \in Segs
    <3>1. s \in Nat
      BY <1>8
    <3> HIDE DEF a, end
    <3> QED BY <3>1, <2>3, <1>1, MaskExact
  <2>7. DOMAIN v = 0 .. n - 1 /\ \A i \in 0 .. n - 1 : v[i] \in SUBSET Byte
    BY DEF Arrays
  <2>8. \A i \in 0 .. n - 1 : w[i] = v[i] \cup SetBits(i, a, end)
    <3>1. \A i \in 0 .. n - 1 : w[i] = v[i] \cup SetBits(i, begin, end)
      BY <2>7
    <3> HIDE DEF w, begin, end, a
    <3> QED BY <3>1, <1>3
  <2>9. w \in Arrays(n)
    <3>1. \A i \in 0 .. n - 1 : SetBits(i, begin, end) \in SUBSET Byte
      BY DEF SetBits
    <3> HIDE DEF begin, end
    <3> QED BY <3>1, <2>7 DEF Arrays
  <2>10. \A s \in Segs : s \div Bits < n => (Bit(w, s) <=> Bit(v, s) \/ (a <= s /\ s < end))
    <3> SUFFICES ASSUME NEW s \in Segs, s \div Bits < n
                 PROVE  Bit(w, s) <=> Bit(v, s) \/ (a <= s /\ s < end)
      OBVIOUS
    <3>1. s \div Bits \in 0 .. n - 1
      BY <1>8, ByteTyped
    <3>2. w[s \div Bits] = v[s \div Bits] \cup SetBits(s \div Bits, a, end)
      BY <3>1, <2>8
    <3> HIDE DEF w, a, end
    <3> QED BY <3>2, <2>6 DEF Bit
  <2> HIDE DEF w, a, e, end, t
  <2>11. \A s \in Segs : s \div Bits < n =>
           /\ Bit(v, s) => Bit(w, s)
           /\ Bit(w, s) => Bit(v, s) \/ s \in Inside(offset, count)
           /\ s < t /\ s \in Inside(offset, count) => Bit(w, s)
    <3> SUFFICES ASSUME NEW s \in Segs, s \div Bits < n
                 PROVE  /\ Bit(v, s) => Bit(w, s)
                        /\ Bit(w, s) => Bit(v, s) \/ s \in Inside(offset, count)
                        /\ s < t /\ s \in Inside(offset, count) => Bit(w, s)
      OBVIOUS
    <3>1. Bit(w, s) <=> Bit(v, s) \/ (a <= s /\ s < end)
      BY <2>10
    <3>2. s < end => s < e
      BY <2>3, <2>4, <1>1, <1>8
    <3>3. s < t /\ a <= s /\ s < e => s < end
      BY <2>5
    <3>4. s \in Inside(offset, count) <=> a <= s /\ s < e
      BY <1>8
    <3> QED BY <3>1, <3>2, <3>3, <3>4
  <2> QED BY <2>1, <2>9, <2>11 DEF t
<1> QED BY <1>10, <1>11

----------------------------------------------------------------------------
(* The invariant                                                           *)

\* What an array of n bytes, and the flag for the rest, say about segment s.
Says(v, n, rest, s) == IF s \div Bits >= n THEN rest ELSE Bit(v, s)

\* The vector is exact, and its array never gets shorter than at the start.
TrimInv ==
  /\ \E n \in Nat : StartLen <= n /\ trimmed \in Arrays(n)
  /\ trimmed_remainder \in BOOLEAN /\ outside \in BOOLEAN
  /\ VectorExact

LEMMA Length ==
  ASSUME NEW n \in Nat, NEW v \in Arrays(n)
  PROVE  DOMAIN v = 0 .. n - 1 /\ Cardinality(DOMAIN v) = n
<1>1. DOMAIN v = 0 .. n - 1
  BY DEF Arrays
<1>2. 0 \in Int /\ n - 1 \in Int
  OBVIOUS
<1>3. Cardinality(0 .. n - 1) = IF 0 > n - 1 THEN 0 ELSE (n - 1) - 0 + 1
  BY <1>2, FS_Interval
<1> QED BY <1>1, <1>3

LEMMA Reads ==
  ASSUME NEW n \in Nat, trimmed \in Arrays(n)
  PROVE  \A s : is_trimmed(s) = Says(trimmed, n, trimmed_remainder, s)
<1>1. trimmed_len = n
  BY Length DEF trimmed_len
<1> QED BY <1>1 DEF is_trimmed, Says, Bit

LEMMA ReadsNext ==
  ASSUME NEW n \in Nat, trimmed' \in Arrays(n)
  PROVE  \A s : is_trimmed(s)' = Says(trimmed', n, trimmed_remainder', s)
<1>1. trimmed_len' = n
  BY Length DEF trimmed_len
<1> QED BY <1>1 DEF is_trimmed, Says, Bit

\* The tracked segments are those of the first StartLen bytes.
LEMMA Tracked ==
  ASSUME NEW s \in Segs
  PROVE  /\ s \in Nat /\ s \div Bits \in Nat
         /\ s < StartLen * Bits <=> s \div Bits < StartLen
<1>1. s \in Nat
  BY Sizes DEF Segs
<1> QED BY <1>1, Sizes, ByteTyped, ByteBound

LEMMA TrimInvInit == block_cache_init => TrimInv
<1> SUFFICES ASSUME block_cache_init PROVE TrimInv
  OBVIOUS
<1> DEFINE zero == [i \in 0 .. StartLen - 1 |-> {}]
           up == (EndOffset + B - 1) \div B
           after == ((EndOffset + B - 1) \div B) * B
           T == trimmed_end_offset
           t == StartLen * Bits
           known == EndOffset > 0 /\ after <= T
<1>1. /\ trimmed_remainder = known
      /\ trimmed = IF known THEN Trim(zero, after, T - after) ELSE zero
      /\ gone = IF known THEN {s \in Segs : s * B >= after} ELSE {}
      /\ outside = FALSE
  BY DEF block_cache_init
<1>2. zero \in Arrays(StartLen) /\ \A s \in Segs : s \div Bits < StartLen => ~Bit(zero, s)
  <2>1. zero \in Arrays(StartLen)
    BY DEF Arrays
  <2>2. ASSUME NEW s \in Segs, s \div Bits < StartLen PROVE ~Bit(zero, s)
    <3>1. s \div Bits \in 0 .. StartLen - 1
      BY <2>2, Tracked, Sizes
    <3> QED BY <3>1 DEF Bit
  <2> QED BY <2>1, <2>2
<1>3. up \in Nat /\ after \in Nat /\ t \in Nat /\ T = t * B /\ T \in Nat
  <2>1. EndOffset + B - 1 \in Nat
    BY Sizes
  <2>2. up \in Nat
    BY <2>1, Sizes, DivNat
  <2>3. after \in Nat
    BY <2>2, Sizes
  <2>4. t \in Nat /\ T = t * B /\ t * B \in Nat
    BY Sizes DEF trimmed_end_offset
  <2> QED BY <2>2, <2>3, <2>4
<1> HIDE DEF zero, up, after, T, t
<1>4. CASE ~known
  <2>1. trimmed = zero /\ ~trimmed_remainder /\ gone = {} /\ trimmed_remainder \in BOOLEAN
    BY <1>1, <1>4
  <2>2. StartLen \in Nat /\ StartLen <= StartLen /\ trimmed \in Arrays(StartLen)
    BY <2>1, <1>2, Sizes
  <2>3. \A s \in Segs : ~is_trimmed(s)
    BY <2>1, <2>2, <1>2, Reads, Tracked, Sizes DEF Says
  <2> QED BY <2>1, <2>2, <2>3, <1>1 DEF TrimInv, VectorExact, NeverHidesData, TrackedExactly
<1>5. CASE known
  <2>1. trimmed = Trim(zero, after, T - after) /\ trimmed_remainder = TRUE
        /\ gone = {s \in Segs : s * B >= after}
    BY <1>1, <1>5
  <2>2. T - after \in Nat /\ after <= T
    BY <1>3, <1>5
  <2>3. StartLen \in Nat /\ StartLen <= StartLen
    BY Sizes
  <2>4. /\ trimmed \in Arrays(StartLen)
        /\ \A s \in Segs : s \div Bits < StartLen =>
             /\ Bit(trimmed, s) => Bit(zero, s) \/ s \in Inside(after, T - after)
             /\ s < StartLen * Bits /\ s \in Inside(after, T - after) => Bit(trimmed, s)
    BY <1>2, <1>3, <2>1, <2>2, <2>3, TrimExact
  <2>5. ASSUME NEW s \in Segs PROVE is_trimmed(s) <=> s \in gone
    <3>1. s \in Nat /\ s \div Bits \in Nat /\ (s < t <=> s \div Bits < StartLen)
      BY Tracked DEF t
    <3>2. /\ s < t => s * B + B <= t * B
          /\ t <= s => t * B <= s * B
          /\ s * B \in Int /\ (s + 1) * B = s * B + B
      <4>1. s \in Int /\ t \in Int /\ B \in Nat \ {0}
        BY <3>1, <1>3, Sizes
      <4> QED BY <4>1, Multiples
    <3>3. CASE s \div Bits < StartLen
      <4>1. s \in Inside(after, T - after) <=> s * B >= after
        BY <3>1, <3>2, <3>3, <2>2, <1>3 DEF Inside
      <4>2. is_trimmed(s) = Bit(trimmed, s)
        BY <3>1, <3>3, <2>3, <2>4, Reads DEF Says
      <4>3. s < StartLen * Bits /\ ~Bit(zero, s)
        BY <3>1, <3>3, <1>2 DEF t
      <4>4. Bit(trimmed, s) <=> s \in Inside(after, T - after)
        BY <4>3, <3>3, <2>4
      <4> QED BY <4>1, <4>2, <4>4, <2>1
    <3>4. CASE ~(s \div Bits < StartLen)
      <4>1. is_trimmed(s) = TRUE
        <5>1. s \div Bits >= StartLen
          BY <3>1, <3>4, Sizes
        <5>2. is_trimmed(s) = Says(trimmed, StartLen, trimmed_remainder, s)
          BY <2>3, <2>4, Reads
        <5>3. Says(trimmed, StartLen, trimmed_remainder, s) = trimmed_remainder
          BY <5>1 DEF Says
        <5> QED BY <5>2, <5>3, <2>1
      <4>2. s * B >= after
        BY <3>1, <3>2, <3>4, <2>2, <1>3
      <4> QED BY <4>1, <4>2, <2>1
    <3> QED BY <3>3, <3>4
  <2> QED BY <2>1, <2>3, <2>4, <2>5, <1>1 DEF TrimInv, VectorExact, NeverHidesData, TrackedExactly
<1> QED BY <1>4, <1>5

\* The new length has room for every byte of the old array.
LEMMA NoShorter ==
  ASSUME NEW ix \in Nat
  PROVE  NewLength(ix) \in Nat /\ ix <= NewLength(ix)
<1> DEFINE q == (ix + Unit - 1) \div Unit
<1>1. ix + Unit - 1 \in Nat
  BY Sizes
<1>2. q \in Nat
  BY <1>1, Sizes, DivNat
<1>3. ix <= q * Unit <=> q <= q
  BY <1>2, Sizes, Ceiling
<1>4. q * Unit \in Nat
  BY <1>2, Sizes
<1> QED BY <1>2, <1>3, <1>4 DEF NewLength

\* Growing the array says the same of every segment.
LEMMA EnlargeSays ==
  ASSUME NEW n \in Nat, StartLen <= n, trimmed \in Arrays(n), trimmed_remainder \in BOOLEAN,
         NEW ix \in Nat, n <= ix
  PROVE  /\ enlarge_trim_bitvector(ix) \in Arrays(NewLength(ix))
         /\ NewLength(ix) \in Nat /\ n <= NewLength(ix)
         /\ \A s \in Segs : Says(enlarge_trim_bitvector(ix), NewLength(ix), trimmed_remainder, s)
                              = Says(trimmed, n, trimmed_remainder, s)
<1> DEFINE m == NewLength(ix)
           v == enlarge_trim_bitvector(ix)
<1>1. m \in Nat /\ n <= m
  BY NoShorter
<1>2. trimmed_len = n /\ \A i \in 0 .. n - 1 : trimmed[i] \in SUBSET Byte
  BY Length DEF trimmed_len, Arrays
<1>3. v = [i \in 0 .. m - 1 |-> IF i < n THEN trimmed[i] ELSE IF trimmed_remainder THEN Byte ELSE {}]
  BY <1>2 DEF enlarge_trim_bitvector
<1> HIDE DEF m, v
<1>4. v \in Arrays(m)
  BY <1>1, <1>2, <1>3 DEF Arrays
<1>5. ASSUME NEW s \in Segs
      PROVE  Says(v, m, trimmed_remainder, s) = Says(trimmed, n, trimmed_remainder, s)
  <2>1. s \div Bits \in Nat /\ (s % Bits) \in Byte
    BY Tracked, ByteTyped
  <2>2. CASE s \div Bits >= m
    BY <2>1, <2>2, <1>1 DEF Says
  <2>3. CASE s \div Bits < m /\ s \div Bits >= n
    <3>1. v[s \div Bits] = IF trimmed_remainder THEN Byte ELSE {}
      BY <2>1, <2>3, <1>1, <1>3
    <3>2. Bit(v, s) = trimmed_remainder
      BY <3>1, <2>1 DEF Bit
    <3>3. ~(s \div Bits >= m)
      BY <2>1, <2>3, <1>1
    <3> QED BY <3>2, <3>3, <2>3 DEF Says
  <2>4. CASE s \div Bits < n
    <3>1. v[s \div Bits] = trimmed[s \div Bits]
      BY <2>1, <2>4, <1>1, <1>3
    <3>2. ~(s \div Bits >= m) /\ ~(s \div Bits >= n)
      BY <2>1, <2>4, <1>1
    <3> QED BY <3>1, <3>2 DEF Says, Bit
  <2> QED BY <2>1, <2>2, <2>3, <2>4, <1>1
<1> QED BY <1>1, <1>4, <1>5 DEF m, v

\* Clearing the bit of s changes what is said of s only.
LEMMA ClearSays ==
  ASSUME NEW n \in Nat, NEW v \in Arrays(n), NEW s \in Segs, ClearBit(v, s)
  PROVE  /\ trimmed' \in Arrays(n)
         /\ outside' = (outside \/ s \div Bits >= n)
         /\ s \div Bits < n => ~Bit(trimmed', s)
         /\ \A r \in Segs : r # s /\ r \div Bits < n => (Bit(trimmed', r) <=> Bit(v, r))
<1>1. DOMAIN v = 0 .. n - 1 /\ \A i \in 0 .. n - 1 : v[i] \in SUBSET Byte
  BY Length DEF Arrays
<1>2. trimmed' = [i \in 0 .. n - 1 |-> IF i = s \div Bits THEN v[i] \ {s % Bits} ELSE v[i]]
  BY <1>1 DEF ClearBit
<1>3. trimmed' \in Arrays(n)
  BY <1>1, <1>2 DEF Arrays
<1>4. s \in Nat /\ s \div Bits \in Nat
  BY Tracked
<1>5. outside' = (outside \/ s \div Bits >= n)
  <2>1. s \div Bits \notin 0 .. n - 1 <=> s \div Bits >= n
    BY <1>4
  <2>2. outside' = (outside \/ s \div Bits \notin DOMAIN v)
    BY DEF ClearBit
  <2> QED BY <2>1, <2>2, <1>1
<1>6. ASSUME s \div Bits < n PROVE ~Bit(trimmed', s)
  <2>1. s \div Bits \in 0 .. n - 1
    BY <1>4, <1>6
  <2> QED BY <2>1, <1>2 DEF Bit
<1>7. ASSUME NEW r \in Segs, r # s, r \div Bits < n PROVE Bit(trimmed', r) <=> Bit(v, r)
  <2>1. r \in Nat /\ r \div Bits \in Nat
    BY Tracked
  <2>2. r \div Bits \in 0 .. n - 1
    BY <2>1, <1>7
  <2>3. r \div Bits = s \div Bits => (r % Bits) # (s % Bits)
    <3>1. r \in Int /\ s \in Int /\ Bits \in Nat \ {0}
      BY <2>1, <1>4, Sizes
    <3>2. (r \div Bits) * Bits + (r % Bits) = r /\ (s \div Bits) * Bits + (s % Bits) = s
      BY <3>1, DivMod
    <3> QED BY <3>2, <1>7
  <2>4. trimmed'[r \div Bits] = IF r \div Bits = s \div Bits THEN v[r \div Bits] \ {s % Bits} ELSE v[r \div Bits]
    BY <2>2, <1>2
  <2> QED BY <2>3, <2>4 DEF Bit
<1> QED BY <1>3, <1>5, <1>6, <1>7

\* A segment that was written is not trimmed any more, and no other changes.
LEMMA ClearExact ==
  ASSUME TrimInv, clear_trimmed
  PROVE  TrimInv'
<1>1. PICK n \in Nat : StartLen <= n /\ trimmed \in Arrays(n)
  BY DEF TrimInv
<1>2. PICK s \in Segs :
        /\ \/ s \div Bits < trimmed_len /\ ClearBit(trimmed, s)
           \/ /\ s \div Bits >= trimmed_len /\ trimmed_remainder
              /\ ClearBit(enlarge_trim_bitvector(s \div Bits), s)
           \/ /\ s \div Bits >= trimmed_len /\ ~trimmed_remainder
              /\ UNCHANGED <<trimmed, outside>>
        /\ gone' = gone \ {s}
        /\ UNCHANGED trimmed_remainder
  BY DEF clear_trimmed
<1>3. trimmed_len = n
  BY <1>1, Length DEF trimmed_len
<1>4. /\ trimmed_remainder \in BOOLEAN /\ outside \in BOOLEAN /\ trimmed_remainder' = trimmed_remainder
      /\ s \in Nat /\ s \div Bits \in Nat /\ gone' = gone \ {s}
  BY <1>2, Tracked DEF TrimInv
<1>5. \A r \in Segs : /\ is_trimmed(r) = Says(trimmed, n, trimmed_remainder, r)
                      /\ ~outside /\ is_trimmed(r) => r \in gone
                      /\ r < StartLen * Bits => (is_trimmed(r) <=> r \in gone)
  BY <1>1, Reads DEF TrimInv, VectorExact, NeverHidesData, TrackedExactly
\* What all three cases come to.
<1>6. \E m \in Nat : /\ StartLen <= m /\ trimmed' \in Arrays(m)
                     /\ outside' \in BOOLEAN /\ (~outside' => ~outside)
                     /\ s < StartLen * Bits => ~Says(trimmed', m, trimmed_remainder, s)
                     /\ ~outside' => ~Says(trimmed', m, trimmed_remainder, s)
                     /\ \A r \in Segs : r # s => Says(trimmed', m, trimmed_remainder, r)
                                                   = Says(trimmed, n, trimmed_remainder, r)
  <2>1. CASE s \div Bits < n /\ ClearBit(trimmed, s)
    <3>1. /\ trimmed' \in Arrays(n) /\ outside' = (outside \/ s \div Bits >= n)
          /\ ~Bit(trimmed', s)
          /\ \A r \in Segs : r # s /\ r \div Bits < n => (Bit(trimmed', r) <=> Bit(trimmed, r))
      BY <2>1, <1>1, ClearSays
    <3>2. ~(s \div Bits >= n)
      BY <2>1, <1>4
    <3>3. outside' = outside /\ ~Says(trimmed', n, trimmed_remainder, s)
      BY <3>1, <3>2, <1>4 DEF Says
    <3>4. ASSUME NEW r \in Segs, r # s
          PROVE  Says(trimmed', n, trimmed_remainder, r) = Says(trimmed, n, trimmed_remainder, r)
      <4>1. r \div Bits \in Nat
        BY Tracked
      <4>2. CASE r \div Bits >= n
        BY <4>2 DEF Says
      <4>3. CASE r \div Bits < n
        <5>1. Bit(trimmed', r) = Bit(trimmed, r)
          BY <4>3, <3>1, <3>4 DEF Bit
        <5>2. ~(r \div Bits >= n)
          BY <4>1, <4>3
        <5> QED BY <5>1, <5>2 DEF Says
      <4> QED BY <4>1, <4>2, <4>3
    <3> QED BY <3>1, <3>3, <3>4, <1>1, <1>4
  <2>2. CASE s \div Bits >= n /\ trimmed_remainder /\ ClearBit(enlarge_trim_bitvector(s \div Bits), s)
    <3> DEFINE m == NewLength(s \div Bits)
               v == enlarge_trim_bitvector(s \div Bits)
    <3>1. /\ v \in Arrays(m) /\ m \in Nat /\ n <= m
          /\ \A r \in Segs : Says(v, m, trimmed_remainder, r) = Says(trimmed, n, trimmed_remainder, r)
      BY <2>2, <1>1, <1>4, EnlargeSays
    <3>2. ClearBit(v, s)
      BY <2>2
    <3> HIDE DEF m, v
    <3>3. /\ trimmed' \in Arrays(m) /\ outside' = (outside \/ s \div Bits >= m)
          /\ s \div Bits < m => ~Bit(trimmed', s)
          /\ \A r \in Segs : r # s /\ r \div Bits < m => (Bit(trimmed', r) <=> Bit(v, r))
      BY <3>1, <3>2, ClearSays
    <3>4. ~outside' => ~outside /\ ~Says(trimmed', m, trimmed_remainder, s)
      <4>1. ~outside' => ~outside /\ ~(s \div Bits >= m)
        BY <3>3
      <4>2. ~(s \div Bits >= m) => s \div Bits < m
        BY <3>1, <1>4
      <4> QED BY <4>1, <4>2, <3>3 DEF Says
    <3>5. ~(s < StartLen * Bits) /\ StartLen <= m
      <4>1. s < StartLen * Bits <=> s \div Bits < StartLen
        BY Tracked
      <4> QED BY <4>1, <3>1, <2>2, <1>1, <1>4, Sizes
    <3>6. ASSUME NEW r \in Segs, r # s
          PROVE  Says(trimmed', m, trimmed_remainder, r) = Says(trimmed, n, trimmed_remainder, r)
      <4>1. r \div Bits \in Nat
        BY Tracked
      <4>2. Says(trimmed', m, trimmed_remainder, r) = Says(v, m, trimmed_remainder, r)
        <5>1. CASE r \div Bits >= m
          BY <5>1 DEF Says
        <5>2. CASE r \div Bits < m
          <6>1. Bit(trimmed', r) = Bit(v, r)
            BY <5>2, <3>3, <3>6 DEF Bit
          <6>2. ~(r \div Bits >= m)
            BY <5>2, <4>1, <3>1
          <6> QED BY <6>1, <6>2 DEF Says
        <5> QED BY <5>1, <5>2, <4>1, <3>1
      <4> QED BY <4>2, <3>1
    <3>7. outside' \in BOOLEAN
      BY <3>3
    <3> QED BY <3>1, <3>3, <3>4, <3>5, <3>6, <3>7
  <2>3. CASE s \div Bits >= n /\ ~trimmed_remainder /\ UNCHANGED <<trimmed, outside>>
    <3>1. trimmed' = trimmed /\ outside' = outside
      BY <2>3
    <3>2. ~Says(trimmed, n, trimmed_remainder, s)
      BY <2>3 DEF Says
    <3> QED BY <3>1, <3>2, <1>1, <1>4
  <2> QED BY <1>2, <1>3, <2>1, <2>2, <2>3
<1>7. PICK m \in Nat : /\ StartLen <= m /\ trimmed' \in Arrays(m)
                       /\ outside' \in BOOLEAN /\ (~outside' => ~outside)
                       /\ s < StartLen * Bits => ~Says(trimmed', m, trimmed_remainder, s)
                       /\ ~outside' => ~Says(trimmed', m, trimmed_remainder, s)
                       /\ \A r \in Segs : r # s => Says(trimmed', m, trimmed_remainder, r)
                                                     = Says(trimmed, n, trimmed_remainder, r)
  BY <1>6
<1>8. \A r \in Segs : is_trimmed(r)' = Says(trimmed', m, trimmed_remainder, r)
  BY <1>4, <1>7, ReadsNext
<1>9. NeverHidesData'
  <2> SUFFICES ASSUME ~outside', NEW r \in Segs, is_trimmed(r)' PROVE r \in gone'
    BY DEF NeverHidesData, Segs
  <2>1. r # s
    BY <1>7, <1>8
  <2>2. is_trimmed(r)
    BY <2>1, <1>5, <1>7, <1>8
  <2> QED BY <2>1, <2>2, <1>4, <1>5, <1>7
<1>10. TrackedExactly'
  <2> SUFFICES ASSUME NEW r \in Segs, r < StartLen * Bits PROVE is_trimmed(r)' <=> r \in gone'
    BY DEF TrackedExactly, Segs
  <2>1. CASE r = s
    BY <2>1, <1>4, <1>7, <1>8
  <2>2. CASE r # s
    <3>1. is_trimmed(r)' <=> is_trimmed(r)
      BY <2>2, <1>5, <1>7, <1>8
    <3> QED BY <2>2, <3>1, <1>4, <1>5
  <2> QED BY <2>1, <2>2
<1> QED BY <1>4, <1>7, <1>9, <1>10 DEF TrimInv, VectorExact

\* A trim adds the whole segments of its range, as far as they are tracked.
LEMMA TrimStepExact ==
  ASSUME TrimInv, block_cache_trim
  PROVE  TrimInv'
<1>1. PICK n \in Nat : StartLen <= n /\ trimmed \in Arrays(n)
  BY DEF TrimInv
<1>2. PICK offset \in 0 .. (MaxSeg + 1) * B, count \in 1 .. (MaxSeg + 1) * B :
        /\ trimmed' = Trim(trimmed, offset, count)
        /\ gone' = gone \cup Inside(offset, count)
        /\ UNCHANGED <<trimmed_remainder, outside>>
  BY DEF block_cache_trim
<1>3. offset \in Nat /\ count \in Nat
  BY Sizes
<1>4. /\ trimmed' \in Arrays(n)
      /\ \A s \in Segs : s \div Bits < n =>
           /\ Bit(trimmed, s) => Bit(trimmed', s)
           /\ Bit(trimmed', s) => Bit(trimmed, s) \/ s \in Inside(offset, count)
           /\ s < StartLen * Bits /\ s \in Inside(offset, count) => Bit(trimmed', s)
  BY <1>1, <1>2, <1>3, TrimExact
<1>5. /\ trimmed_remainder' = trimmed_remainder /\ outside' = outside
      /\ trimmed_remainder \in BOOLEAN /\ outside \in BOOLEAN
  BY <1>2 DEF TrimInv
<1>6. \A s \in Segs : /\ is_trimmed(s) = Says(trimmed, n, trimmed_remainder, s)
                      /\ is_trimmed(s)' = Says(trimmed', n, trimmed_remainder, s)
  BY <1>1, <1>4, <1>5, Reads, ReadsNext
<1>7. \A s \in Segs : /\ ~outside /\ is_trimmed(s) => s \in gone
                      /\ s < StartLen * Bits => (is_trimmed(s) <=> s \in gone)
  BY DEF TrimInv, VectorExact, NeverHidesData, TrackedExactly
<1>8. ASSUME NEW s \in Segs
      PROVE  /\ is_trimmed(s)' => is_trimmed(s) \/ s \in Inside(offset, count)
             /\ s < StartLen * Bits => (is_trimmed(s)' <=> is_trimmed(s) \/ s \in Inside(offset, count))
  <2>1. s \div Bits \in Nat /\ (s < StartLen * Bits <=> s \div Bits < StartLen)
    BY Tracked
  <2>2. CASE s \div Bits >= n
    <3>1. ~(s < StartLen * Bits)
      BY <2>1, <2>2, <1>1, Sizes
    <3> QED BY <3>1, <2>2, <1>6 DEF Says
  <2>3. CASE s \div Bits < n
    <3>1. ~(s \div Bits >= n)
      BY <2>1, <2>3
    <3>2. (is_trimmed(s) <=> Bit(trimmed, s)) /\ (is_trimmed(s)' <=> Bit(trimmed', s))
      BY <3>1, <1>6 DEF Says
    <3> QED BY <3>2, <2>3, <1>4
  <2> QED BY <2>1, <2>2, <2>3
<1>9. NeverHidesData'
  <2> SUFFICES ASSUME ~outside', NEW s \in Segs, is_trimmed(s)' PROVE s \in gone'
    BY DEF NeverHidesData, Segs
  <2> QED BY <1>2, <1>5, <1>7, <1>8
<1>10. TrackedExactly'
  <2> SUFFICES ASSUME NEW s \in Segs, s < StartLen * Bits PROVE is_trimmed(s)' <=> s \in gone'
    BY DEF TrackedExactly, Segs
  <2> QED BY <1>2, <1>7, <1>8
<1> QED BY <1>1, <1>4, <1>5, <1>9, <1>10 DEF TrimInv, VectorExact

----------------------------------------------------------------------------
(* The theorem                                                             *)

\* Whatever is trimmed and written, and however long the array gets, the bit
\* vector of block_cache.c never calls a segment trimmed that holds data, and
\* inside the range tracked from the start it misses none: for every size of
\* segment, byte and array, and for every end of the destination.
THEOREM TrimVectorExact == VectorSpec => []VectorExact
<1>1. TrimInv /\ [VectorNext]_vector => TrimInv'
  <2> SUFFICES ASSUME TrimInv, [VectorNext]_vector PROVE TrimInv'
    OBVIOUS
  <2>1. CASE clear_trimmed
    BY <2>1, ClearExact
  <2>2. CASE block_cache_trim
    BY <2>2, TrimStepExact
  <2>3. CASE UNCHANGED vector
    <3>1. \A s : is_trimmed(s)' = is_trimmed(s)
      BY <2>3 DEF vector, is_trimmed, trimmed_len
    <3> QED BY <3>1, <2>3 DEF vector, TrimInv, VectorExact, NeverHidesData, TrackedExactly
  <2> QED BY <2>1, <2>2, <2>3 DEF VectorNext
<1>2. TrimInv => VectorExact
  BY DEF TrimInv
<1> QED BY <1>1, <1>2, TrimInvInit, PTL DEF VectorSpec

============================================================================
