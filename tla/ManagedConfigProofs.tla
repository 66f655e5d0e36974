------------------------- MODULE ManagedConfigProofs -------------------------
(***************************************************************************)
(* What ManagedConfig keeps, for every set of variables, servers, files    *)
(* and libraries, whatever commands run, fail or are cut short.            *)
(***************************************************************************)
EXTENDS ManagedConfig, SequenceTheorems, FiniteSetTheorems, TLAPS

UserFiles == [auto : {None, "user"}, env : Env]
Codes ==
  [auto : Values, env : Env, prev : Records \cup {Absent}, own : UserFiles, taken : BOOLEAN]

\* The entries a library may have: the user's, unless they were lost, and perhaps
\* the one of this program.
Known == {mine, <<>>} \cup {Append(mine, Own), Append(<<>>, Own)}

IsMirror(m) == m \in Mirrors /\ (m.meta # Absent => m.meta.entries \in Known)

Types ==
  /\ official \in Officials
  /\ mirror # Absent => IsMirror(mirror)
  /\ backup # Absent => IsMirror(backup)
  /\ IsMirror(held)
  /\ mine \in Seq(Entries) /\ Own \notin ToSet(mine) /\ None \notin ToSet(mine)

\* What a settings.json holds, and what the user has in it or would get back.
KeptCode(c) ==
  /\ c \in Codes /\ (c.prev # Absent => c.env # Absent)
  /\ LET was == IF c.prev = Absent THEN c ELSE RestoreEnv(c) IN
       /\ was.auto = c.own.auto
       /\ \/ was.env = c.own.env
          \/ c.taken /\ was.env = Stripped(c.own.env)

\* The user's library is all in a mirror, and what is applied is there.
Library(m) == IF m = Absent THEN Absent ELSE m.meta

Lists(meta) ==
  IF meta = Absent THEN mine = <<>> ELSE meta.entries \in {mine, Append(mine, Own)}

Applies(m) ==
  (Library(m) # Absent /\ m.meta.applied # None) =>
    /\ m.meta.applied \in ToSet(m.meta.entries)
    /\ m.meta.applied = Own => m.config

Whole(m) == Lists(Library(m)) /\ Applies(m)

Steady == ~stranded => Whole(mirror) /\ (mirror = Absent => backup = Absent)

\* How far a removal has come before its n-th step.
Undone(n) ==
  /\ n > 1 => (Library(mirror) # Absent => Own \notin ToSet(mirror.meta.entries))
  /\ n > 2 => (mirror # Absent => ~mirror.config)
  /\ n > 3 => code.prev = Absent
  /\ n > 4 => (mirror # Absent =>
                 /\ mirror.desk # Broken
                 /\ mirror.desk # Absent => /\ mirror.desk.prev = Absent
                                            /\ mirror.desk.mode = "3p" => mirror.desk.own = "3p")
  /\ n > 5 => ~settings

\* Claude Desktop is on the third-party mode.
Forced ==
  /\ mirror # Absent /\ mirror.desk \in Desks
  /\ mirror.desk.mode = "3p" /\ mirror.desk.prev # Absent
  /\ \A s \in Names :
       /\ s \in Retired => mirror.desk.servers[s] = None
       /\ (s \notin Retired /\ HasFile) =>
            (official.servers[s] # None => mirror.desk.servers[s] # None)

\* The library in the hands of a reset, and where it still is.
Bare(m) == m # Absent => m.meta = Absent /\ ~m.config

HeldIs(m) ==
  /\ held.meta = Library(m)
  /\ held.config => (m # Absent /\ m.config)
  /\ (m # Absent /\ m.config) => held.config

Rebuilding(n) ==
  /\ n \in {2, 3} => HeldIs(mirror)
  /\ n = 3 => (~stranded => backup = Absent)
  /\ n > 4 => mirror # Absent
  /\ ~stranded =>
       /\ n \in {4, 5} => Bare(mirror) /\ Whole(backup) /\ HeldIs(backup)
       /\ n > 5 => Whole(mirror) /\ (backup # Absent => Whole(backup))

Removal == {"restore", "purge", "uninstall"}

Progress(n) ==
  /\ op \in Removal => Undone(n)
  /\ op = "save" =>
       /\ n > 3 => (mirror # Absent /\ mirror.config)
       /\ n > 6 => Forced
       /\ n > 7 => (mirror.meta # Absent /\ mirror.meta.applied = Own)
  /\ op = "resync" => (n > 4 => Forced)
  /\ op = "reset"  => Rebuilding(n) /\ (n > 7 => Forced)
  /\ (op # "reset" \/ n =< 3) => Steady

\* A command before its n-th step.
Rest(o, n) == SubSeq(Steps(o), n, Len(Steps(o)))

Working(n) ==
  /\ op \in Op /\ n \in 1 .. Len(Steps(op)) + 1 /\ todo = Rest(op, n)
  /\ Progress(n)

Resting == op = "none" /\ todo = <<>> /\ Steady

Undoing ==
  /\ op = "reset" /\ todo \in {<<"clear", "putback">>, <<"putback">>}
  /\ backup # Absent
  /\ ~stranded => Whole(backup) /\ Applies(mirror)

Course == Resting \/ Undoing \/ \E n \in Nat : Working(n)

IInv == Types /\ KeptCode(code) /\ ModeKept /\ Course
-----------------------------------------------------------------------------
(* Commands and their steps                                                *)

\* What is left of a sequence from a place on.
LEMMA RestOfSequence ==
  ASSUME NEW S, NEW s \in Seq(S), NEW n \in 1 .. Len(s)
  PROVE  /\ SubSeq(s, n, Len(s)) # <<>>
         /\ Head(SubSeq(s, n, Len(s))) = s[n]
         /\ Tail(SubSeq(s, n, Len(s))) = SubSeq(s, n + 1, Len(s))
<1>1. n \in 1 .. Len(s) + 1 /\ Len(s) \in Nat /\ n + 1 \in 1 .. Len(s) + 1
  OBVIOUS
<1> DEFINE t == SubSeq(s, n, Len(s))
           u == SubSeq(s, n + 1, Len(s))
<1>2. t \in Seq(S) /\ Len(t) = Len(s) - n + 1 /\ \A i \in 1 .. Len(s) - n + 1 : t[i] = s[n + i - 1]
  BY <1>1, SubSeqProperties
<1>3. u \in Seq(S) /\ Len(u) = Len(s) - n /\ \A i \in 1 .. Len(s) - n : u[i] = s[n + i]
  BY <1>1, SubSeqProperties
<1> HIDE DEF t, u
<1>4. Len(t) > 0 /\ t # <<>> /\ Head(t) = t[1] /\ t[1] = s[n]
  BY <1>1, <1>2
<1>5. Tail(t) \in Seq(S) /\ Len(Tail(t)) = Len(t) - 1 /\ \A i \in 1 .. Len(t) - 1 : Tail(t)[i] = t[i + 1]
  BY <1>2, <1>4, HeadTailProperties
<1>6. Tail(t) = u
  <2>1. Len(Tail(t)) = Len(u)
    <3>1. Len(t) = Len(s) - n + 1 /\ Len(u) = Len(s) - n /\ Len(Tail(t)) = Len(t) - 1
      BY <1>2, <1>3, <1>5
    <3> QED
      BY ONLY <1>1, <3>1
  <2>2. \A i \in 1 .. Len(u) : Tail(t)[i] = u[i]
    BY <1>1, <1>2, <1>3, <1>5
  <2> QED
    BY <1>3, <1>5, <2>1, <2>2, SeqEqual
<1> QED
  BY <1>4, <1>6 DEF t, u

Step == {"settings", "load", "port", "env", "unenv", "copy", "ensure", "config", "3p", "1p",
         "meta", "unmeta", "unconfig", "unsettings", "data", "read", "dropold", "aside",
         "library", "commit"}

\* The steps of a removal, of a purge and of an uninstall.
LEMMA RemovalSteps ==
  /\ Steps("restore") = <<"unmeta", "unconfig", "unenv", "1p", "unsettings">>
  /\ Steps("purge") = <<"unmeta", "unconfig", "unenv", "1p", "unsettings", "data">>
  /\ Steps("uninstall") = <<"unmeta", "unconfig", "unenv", "1p", "unsettings",
                            "unmeta", "unconfig", "unenv", "1p", "unsettings", "data">>
<1> DEFINE five   == <<"unmeta", "unconfig", "unenv", "1p", "unsettings">>
           six    == <<"unmeta", "unconfig", "unenv", "1p", "unsettings", "data">>
           ten    == <<"unmeta", "unconfig", "unenv", "1p", "unsettings",
                       "unmeta", "unconfig", "unenv", "1p", "unsettings">>
           eleven == <<"unmeta", "unconfig", "unenv", "1p", "unsettings",
                       "unmeta", "unconfig", "unenv", "1p", "unsettings", "data">>
           last   == <<"data">>
<1>1. /\ five \in Seq(Step) /\ Len(five) = 5
      /\ six \in Seq(Step) /\ Len(six) = 6
      /\ ten \in Seq(Step) /\ Len(ten) = 10
      /\ eleven \in Seq(Step) /\ Len(eleven) = 11
      /\ last \in Seq(Step) /\ Len(last) = 1
  BY DEF Step
<1>2. /\ \A i \in 1 .. 6 : six[i] = IF i =< 5 THEN five[i] ELSE last[i - 5]
      /\ \A i \in 1 .. 10 : ten[i] = IF i =< 5 THEN five[i] ELSE five[i - 5]
      /\ \A i \in 1 .. 11 : eleven[i] = IF i =< 10 THEN ten[i] ELSE last[i - 10]
  OBVIOUS
<1>3. Steps("restore") = five /\ Steps("purge") = five \o last
      /\ Steps("uninstall") = (five \o five) \o last
  BY DEF Steps, RestoreSteps
<1> HIDE DEF five, six, ten, eleven, last
<1>4. ASSUME NEW s \in Seq(Step), NEW t \in Seq(Step), NEW u \in Seq(Step), Len(u) = Len(s) + Len(t),
             \A i \in 1 .. Len(u) : u[i] = IF i =< Len(s) THEN s[i] ELSE t[i - Len(s)]
      PROVE  s \o t = u
  <2>1. s \o t \in Seq(Step) /\ Len(s \o t) = Len(s) + Len(t)
        /\ \A i \in 1 .. Len(s) + Len(t) : (s \o t)[i] = IF i =< Len(s) THEN s[i] ELSE t[i - Len(s)]
    BY ConcatProperties
  <2> QED
    BY <1>4, <2>1, SeqEqual
<1>5. five \o last = six
  <2>1. Len(six) = Len(five) + Len(last)
    BY <1>1
  <2>2. \A i \in 1 .. Len(six) : six[i] = IF i =< Len(five) THEN five[i] ELSE last[i - Len(five)]
    BY <1>1, <1>2
  <2> QED
    BY ONLY <1>1, <1>4, <2>1, <2>2
<1>6. five \o five = ten
  <2>1. Len(ten) = Len(five) + Len(five)
    BY <1>1
  <2>2. \A i \in 1 .. Len(ten) : ten[i] = IF i =< Len(five) THEN five[i] ELSE five[i - Len(five)]
    BY <1>1, <1>2
  <2> QED
    BY ONLY <1>1, <1>4, <2>1, <2>2
<1>7. ten \o last = eleven
  <2>1. Len(eleven) = Len(ten) + Len(last)
    BY <1>1
  <2>2. \A i \in 1 .. Len(eleven) : eleven[i] = IF i =< Len(ten) THEN ten[i] ELSE last[i - Len(ten)]
    BY <1>1, <1>2
  <2> QED
    BY ONLY <1>1, <1>4, <2>1, <2>2
<1> QED
  BY <1>3, <1>5, <1>6, <1>7 DEF five, six, eleven

\* Which step of which command each step is.
LEMMA Places ==
  ASSUME NEW o \in Op, NEW s, s = Steps(o)
  PROVE  /\ s \in Seq(Step) /\ Len(s) \in Nat \ {0}
         /\ \A n \in 1 .. Len(s) :
              /\ s[n] = "settings" => o \notin {"reset"} \cup Removal /\ n = 1
              /\ s[n] \in {"load", "port", "env"} => o \in {"install", "resync"} /\ n \in {2, 3, 5, 6}
              /\ s[n] = "unenv"    => \/ o = "save" /\ n = 4
                                      \/ o \in Removal /\ n \in {3, 8}
              /\ s[n] = "copy"     => o = "resync" /\ n = 1
              /\ s[n] = "ensure"   => \/ o = "save" /\ n \in {2, 5}
                                      \/ o = "resync" /\ n = 3
                                      \/ o = "reset" /\ n \in {4, 6}
                                      \/ o = "launch" /\ n = 1
              /\ s[n] = "config"   => o = "save" /\ n = 3
              /\ s[n] = "3p"       => \/ o = "save" /\ n = 6
                                      \/ o = "resync" /\ n = 4
                                      \/ o = "reset" /\ n = 7
              /\ s[n] = "1p"       => o \in Removal /\ n \in {4, 9}
              /\ s[n] = "meta"     => o = "save" /\ n = 7
              /\ s[n] = "unmeta"   => o \in Removal /\ n \in {1, 6}
              /\ s[n] = "unconfig" => o \in Removal /\ n \in {2, 7}
              /\ s[n] \in {"unsettings", "data"} => o \in Removal /\ n \in {5, 6, 10, 11}
              /\ s[n] = "read"     => o = "reset" /\ n = 1
              /\ s[n] = "dropold"  => o = "reset" /\ n = 2
              /\ s[n] = "aside"    => o = "reset" /\ n = 3
              /\ s[n] = "library"  => o = "reset" /\ n = 5
              /\ s[n] = "commit"   => o = "reset" /\ n = 8
<1> USE DEF Step, Removal
<1>1. CASE o = "install"
  BY <1>1 DEF Steps
<1>2. CASE o = "save"
  BY <1>2 DEF Steps
<1>3. CASE o = "resync"
  BY <1>3 DEF Steps
<1>4. CASE o = "reset"
  BY <1>4 DEF Steps
<1>5. CASE o = "launch"
  BY <1>5 DEF Steps
<1>6. CASE o = "restore"
  <2>1. s = <<"unmeta", "unconfig", "unenv", "1p", "unsettings">>
    BY <1>6, RemovalSteps
  <2> QED
    BY ONLY <1>6, <2>1
<1>7. CASE o = "purge"
  <2>1. s = <<"unmeta", "unconfig", "unenv", "1p", "unsettings", "data">>
    BY <1>7, RemovalSteps
  <2> QED
    BY ONLY <1>7, <2>1
<1>8. CASE o = "uninstall"
  <2>1. s = <<"unmeta", "unconfig", "unenv", "1p", "unsettings",
              "unmeta", "unconfig", "unenv", "1p", "unsettings", "data">>
    BY <1>8, RemovalSteps
  <2> QED
    BY ONLY <1>8, <2>1
<1> QED
  BY <1>1, <1>2, <1>3, <1>4, <1>5, <1>6, <1>7, <1>8 DEF Op
-----------------------------------------------------------------------------
(* The library                                                             *)

\* The entries up to the last one of the user.
LEMMA UsersOfPrefix ==
  ASSUME NEW e, NEW m \in Nat, {i \in DOMAIN e : e[i] # Own} = 1 .. m
  PROVE  Users(e) = [k \in 1 .. m |-> e[k]]
<1> DEFINE kept   == {i \in DOMAIN e : e[i] # Own}
           Nth(k) == CHOOSE i \in kept : Cardinality({j \in kept : j =< i}) = k
<1>1. kept = 1 .. m
  OBVIOUS
<1>2. ASSUME NEW i \in 1 .. m PROVE Cardinality({j \in kept : j =< i}) = i
  <2>1. {j \in kept : j =< i} = 1 .. i
    BY <1>1
  <2>2. Cardinality(1 .. i) = i
    BY FS_Interval
  <2> QED
    BY <2>1, <2>2
<1>3. Cardinality(kept) = m
  <2>1. Cardinality(1 .. m) = m
    BY FS_Interval
  <2> QED
    BY <1>1, <2>1
<1>4. Users(e) = [k \in 1 .. Cardinality(kept) |-> e[Nth(k)]]
  BY DEF Users
<1> HIDE DEF kept
<1>5. ASSUME NEW k \in 1 .. m PROVE Nth(k) = k
  BY <1>1, <1>2
<1> QED
  BY <1>3, <1>4, <1>5

\* Without the program's entry a list is the user's, with it or without.
LEMMA UsersAreKept ==
  ASSUME NEW S, NEW e \in Seq(S), Own \notin ToSet(e)
  PROVE  Users(e) = e /\ Users(Append(e, Own)) = e
<1> DEFINE n == Len(e)
           f == Append(e, Own)
<1>1. n \in Nat /\ DOMAIN e = 1 .. n /\ e = [k \in 1 .. n |-> e[k]]
  OBVIOUS
<1>2. \A i \in 1 .. n : e[i] # Own
  BY <1>1 DEF ToSet
<1>3. DOMAIN f = 1 .. n + 1 /\ f[n + 1] = Own /\ \A i \in 1 .. n : f[i] = e[i]
  OBVIOUS
<1> HIDE DEF f, n
<1>4. {i \in DOMAIN e : e[i] # Own} = 1 .. n
  BY <1>1, <1>2
<1>5. {i \in DOMAIN f : f[i] # Own} = 1 .. n
  BY <1>1, <1>2, <1>3
<1>6. Users(e) = [k \in 1 .. n |-> e[k]]
  BY <1>1, <1>4, UsersOfPrefix
<1>7. Users(f) = [k \in 1 .. n |-> f[k]]
  BY <1>1, <1>5, UsersOfPrefix
<1>8. [k \in 1 .. n |-> f[k]] = [k \in 1 .. n |-> e[k]]
  BY <1>3
<1> QED
  BY <1>1, <1>6, <1>7, <1>8 DEF f

\* What the known lists have in them.
LEMMA KnownLists ==
  ASSUME mine \in Seq(Entries), Own \notin ToSet(mine)
  PROVE  /\ \A e \in Known : e \in Seq(Entries) /\ Users(e) \in {mine, <<>>}
         /\ Users(mine) = mine /\ Users(Append(mine, Own)) = mine /\ Users(<<>>) = <<>>
         /\ \A e \in {mine, <<>>} : /\ e \in Seq(Entries) /\ Own \notin ToSet(e)
                                    /\ ToSet(Append(e, Own)) = ToSet(e) \cup {Own}
<1>1. Own \in Entries
  BY DEF Entries
<1>2. <<>> \in Seq(Entries) /\ Own \notin ToSet(<<>>)
  BY DEF ToSet
<1>3. ASSUME NEW e \in {mine, <<>>}
      PROVE  /\ e \in Seq(Entries) /\ Own \notin ToSet(e) /\ Append(e, Own) \in Seq(Entries)
             /\ Users(e) = e /\ Users(Append(e, Own)) = e
             /\ ToSet(Append(e, Own)) = ToSet(e) \cup {Own}
  <2>1. e \in Seq(Entries) /\ Own \notin ToSet(e)
    BY <1>2
  <2> HIDE DEF Entries
  <2>2. Append(e, Own) \in Seq(Entries)
    BY <1>1, <2>1
  <2>3. Users(e) = e /\ Users(Append(e, Own)) = e
    BY <2>1, UsersAreKept
  <2>4. ToSet(Append(e, Own)) = ToSet(e) \cup {Own}
    <3>1. /\ Len(Append(e, Own)) = Len(e) + 1 /\ Append(e, Own)[Len(e) + 1] = Own
          /\ \A i \in 1 .. Len(e) : Append(e, Own)[i] = e[i]
          /\ DOMAIN e = 1 .. Len(e) /\ DOMAIN Append(e, Own) = 1 .. Len(e) + 1 /\ Len(e) \in Nat
      BY <1>1, <2>1
    <3> QED
      BY <3>1 DEF ToSet
  <2> QED
    BY <2>1, <2>2, <2>3, <2>4
<1> QED
  BY <1>3 DEF Known
-----------------------------------------------------------------------------
(* settings.json                                                           *)

\* What a record gives back over the variables there are.
BackOver(prev, env) ==
  [v \in EnvVars |-> IF v \in Keys THEN prev.env[v] ELSE Object(env)[v]]

Back(prev, env) ==
  IF env = Broken THEN Broken
  ELSE IF BackOver(prev, env) = Object(Absent) /\ ~prev.present THEN Absent
  ELSE BackOver(prev, env)

LEMMA Objects ==
  ASSUME NEW env \in Env, env # Broken
  PROVE  /\ Object(env) \in [EnvVars -> Values] /\ Object(Absent) \in [EnvVars -> Values]
         /\ env # Absent => Object(env) = env
BY DEF Object, Env, Values

LEMMA StrippedIsEnv ==
  ASSUME NEW env \in Env
  PROVE  /\ Stripped(env) \in Env
         /\ Stripped(env) = Absent <=> env = Absent
         /\ Stripped(env) = Broken <=> env = Broken
         /\ Stripped(Stripped(env)) = Stripped(env)
<1>1. CASE env \in {Absent, Broken}
  BY <1>1 DEF Stripped, Env
<1>2. CASE env \in [EnvVars -> Values]
  <2>1. env \notin {Absent, Broken}
    BY <1>2, SentinelsAssumption
  <2>2. Stripped(env) = [v \in EnvVars |-> IF v \in Keys THEN None ELSE env[v]]
    BY <2>1 DEF Stripped
  <2>3. Stripped(env) \in [EnvVars -> Values]
    BY <1>2, <2>2 DEF Values
  <2>4. Stripped(env) \notin {Absent, Broken}
    BY <2>3, SentinelsAssumption
  <2>5. Stripped(Stripped(env)) = [v \in EnvVars |-> IF v \in Keys THEN None ELSE Stripped(env)[v]]
    BY <2>4 DEF Stripped
  <2> QED
    BY <2>1, <2>2, <2>3, <2>4, <2>5 DEF Env
<1> QED
  BY <1>1, <1>2 DEF Env

\* A removal with a record gives back what it holds.
LEMMA RestoredCode ==
  ASSUME NEW c \in Codes, c.prev # Absent
  PROVE  /\ RestoreEnv(c) \in Codes
         /\ RestoreEnv(c).prev = Absent /\ RestoreEnv(c).auto = c.prev.auto
         /\ RestoreEnv(c).env = Back(c.prev, c.env)
         /\ RestoreEnv(c).own = c.own /\ RestoreEnv(c).taken = c.taken
<1> DEFINE env  == IF c.env = Broken THEN Broken ELSE BackOver(c.prev, c.env)
           back == IF env = Object(Absent) /\ ~c.prev.present THEN Absent ELSE env
<1>1. RestoreEnv(c) = [c EXCEPT !.prev = Absent, !.auto = c.prev.auto, !.env = back]
  BY DEF RestoreEnv, BackOver
<1>2. c.prev \in Records /\ c.env \in Env
  BY DEF Codes
<1>3. Object(Absent) # Broken
  <2>1. Object(Absent) \in [EnvVars -> Values]
    BY DEF Object, Values
  <2> QED
    BY <2>1, SentinelsAssumption
<1>4. back = Back(c.prev, c.env)
  BY <1>3 DEF Back
<1>5. BackOver(c.prev, c.env) \in [EnvVars -> Values] \/ c.env = Broken
  <2>1. c.env # Broken => Object(c.env) \in [EnvVars -> Values]
    BY <1>2, Objects
  <2> QED
    BY <1>2, <2>1 DEF BackOver, Records, EnvVars
<1>6. back \in Env
  BY <1>5 DEF Env
<1>7. c.prev.auto \in Values
  BY <1>2 DEF Records
<1> HIDE DEF back
<1> QED
  BY <1>1, <1>4, <1>6, <1>7 DEF Codes

\* A record is made of what is there, and gives it back.
LEMMA RecordGivesBack ==
  ASSUME NEW c \in Codes, NEW env \in Env,
         c.env = Broken => env = Broken,
         c.env # Broken => env = [v \in EnvVars |-> IF v \in Keys THEN "managed" ELSE Object(c.env)[v]]
  PROVE  Record(c) \in Records /\ Record(c).auto = c.auto /\ Back(Record(c), env) = c.env
<1>0. c.env \in Env /\ c.auto \in Values
  BY DEF Codes
<1>1. Record(c) \in Records /\ Record(c).auto = c.auto
      /\ Record(c).env = [k \in Keys |-> IF c.env \in {Absent, Broken} THEN None ELSE c.env[k]]
      /\ (Record(c).present <=> c.env # Absent)
  <2>1. \A k \in Keys : c.env \notin {Absent, Broken} => c.env[k] \in Values
    BY <1>0 DEF Env, EnvVars
  <2> QED
    BY <1>0, <2>1 DEF Record, Records, Values
<1>2. CASE c.env = Broken
  BY <1>1, <1>2 DEF Back
<1>3. CASE c.env # Broken
  <2>1. Object(c.env) \in [EnvVars -> Values] /\ Object(Absent) \in [EnvVars -> Values]
        /\ (c.env # Absent => Object(c.env) = c.env)
    BY <1>0, <1>3, Objects
  <2>2. env \in [EnvVars -> Values] /\ \A v \in EnvVars \ Keys : env[v] = Object(c.env)[v]
    BY <1>3, <2>1 DEF Values
  <2>3. env # Broken /\ env # Absent /\ Object(env) = env
    BY <2>2, SentinelsAssumption DEF Object
  <2>4. \A k \in Keys : Record(c).env[k] = Object(c.env)[k]
    <3>1. CASE c.env = Absent
      BY <1>1, <3>1 DEF Object, EnvVars
    <3>2. CASE c.env # Absent
      BY <1>1, <1>3, <2>1, <3>2
    <3> QED
      BY <3>1, <3>2
  <2>5. BackOver(Record(c), env) = Object(c.env)
    BY <2>1, <2>2, <2>3, <2>4 DEF BackOver
  <2>6. CASE c.env = Absent
    BY <1>1, <2>3, <2>5, <2>6 DEF Back
  <2>7. CASE c.env # Absent
    BY <1>1, <2>1, <2>3, <2>5, <2>7 DEF Back
  <2> QED
    BY <2>6, <2>7
<1> QED
  BY <1>1, <1>2, <1>3

\* The variables are managed: what was there is recorded, or was before.
LEMMA ApplyKeepsCode == ASSUME NEW c, KeptCode(c) PROVE KeptCode(ApplyEnv(c))
<1> DEFINE auto == IF c.auto = None THEN "managed" ELSE c.auto
           env  == IF c.env = Broken THEN Broken
                   ELSE [v \in EnvVars |-> IF v \in Keys THEN "managed" ELSE Object(c.env)[v]]
           prev == IF c.prev = Absent THEN Record(c) ELSE c.prev
           d    == ApplyEnv(c)
<1>0. c \in Codes /\ c.env \in Env /\ c.auto \in Values /\ c.prev \in Records \cup {Absent}
  BY DEF KeptCode, Codes
<1>1. d = [c EXCEPT !.prev = prev, !.auto = auto, !.env = env]
  BY DEF ApplyEnv
<1>2. auto \in Values
  BY <1>0 DEF Values
<1>3. env \in Env /\ env # Absent
  <2>1. CASE c.env = Broken
    BY <2>1, SentinelsAssumption DEF Env
  <2>2. CASE c.env # Broken
    <3>1. Object(c.env) \in [EnvVars -> Values]
      BY <1>0, <2>2, Objects
    <3>2. env \in [EnvVars -> Values]
      BY <2>2, <3>1 DEF Values
    <3> QED
      BY <3>2, SentinelsAssumption DEF Env
  <2> QED
    BY <2>1, <2>2
<1>4. /\ c.env = Broken => env = Broken
      /\ c.env # Broken => env = [v \in EnvVars |-> IF v \in Keys THEN "managed" ELSE Object(c.env)[v]]
  OBVIOUS
<1> HIDE DEF auto, env
<1>5. Record(c) \in Records /\ Record(c).auto = c.auto /\ Back(Record(c), env) = c.env
  BY <1>0, <1>3, <1>4, RecordGivesBack
<1>6. prev \in Records /\ prev # Absent
  BY <1>0, <1>5, SentinelsAssumption
<1> HIDE DEF prev
<1>7. d \in Codes /\ d.prev = prev /\ d.env = env /\ d.own = c.own /\ d.taken = c.taken
  BY <1>0, <1>1, <1>2, <1>3, <1>6 DEF Codes
<1> HIDE DEF d
<1>8. /\ RestoreEnv(d).auto = prev.auto /\ RestoreEnv(d).env = Back(prev, env)
  BY <1>6, <1>7, RestoredCode
<1>9. CASE c.prev = Absent
  <2>1. prev = Record(c)
    BY <1>9 DEF prev
  <2>2. RestoreEnv(d).auto = c.auto /\ RestoreEnv(d).env = c.env
    BY <1>5, <1>8, <2>1
  <2>3. KeptCode(d)
    BY <1>3, <1>6, <1>7, <1>9, <2>2 DEF KeptCode
  <2> QED
    BY <2>3 DEF d
<1>10. CASE c.prev # Absent
  <2>1. prev = c.prev
    BY <1>10 DEF prev
  <2>2. RestoreEnv(c).auto = prev.auto /\ RestoreEnv(c).env = Back(prev, c.env)
    BY <1>0, <1>10, <2>1, RestoredCode
  <2>3. Back(prev, env) = Back(prev, c.env)
    <3>1. CASE c.env = Broken
      BY <1>4, <3>1
    <3>2. CASE c.env # Broken
      <4>1. c.env # Absent
        BY <1>10 DEF KeptCode
      <4>2. Object(c.env) = c.env /\ c.env \in [EnvVars -> Values]
        BY <1>0, <3>2, <4>1, Objects DEF Env
      <4>3. env # Broken /\ Object(env) = env /\ \A v \in EnvVars \ Keys : env[v] = c.env[v]
        <5>1. env \in [EnvVars -> Values]
          BY <1>4, <3>2, <4>2 DEF Values
        <5> QED
          BY <1>3, <1>4, <3>2, <4>2, <5>1, SentinelsAssumption DEF Object
      <4>4. BackOver(prev, env) = BackOver(prev, c.env)
        BY <4>2, <4>3 DEF BackOver
      <4> QED
        BY <3>2, <4>3, <4>4 DEF Back
    <3> QED
      BY <3>1, <3>2
  <2>4. RestoreEnv(d).auto = RestoreEnv(c).auto /\ RestoreEnv(d).env = RestoreEnv(c).env
    BY <1>8, <2>2, <2>3
  <2>5. KeptCode(d)
    BY <1>3, <1>6, <1>7, <1>10, <2>4 DEF KeptCode
  <2> QED
    BY <2>5 DEF d
<1> QED
  BY <1>9, <1>10

\* They go again: what was recorded is back, or nothing else is lost.
LEMMA RemoveKeepsCode ==
  ASSUME NEW c, KeptCode(c)
  PROVE  KeptCode(RemoveEnv(c)) /\ RemoveEnv(c).prev = Absent
<1>0. c \in Codes /\ c.env \in Env
  BY DEF KeptCode, Codes
<1>1. CASE c.prev # Absent
  <2>1. RemoveEnv(c) = RestoreEnv(c)
    BY <1>1 DEF RemoveEnv
  <2>2. /\ RestoreEnv(c) \in Codes /\ RestoreEnv(c).prev = Absent
        /\ RestoreEnv(c).own = c.own /\ RestoreEnv(c).taken = c.taken
    BY <1>0, <1>1, RestoredCode
  <2> QED
    BY <1>1, <2>1, <2>2 DEF KeptCode
<1>2. CASE c.prev = Absent
  <2> DEFINE env   == Stripped(c.env)
             taken == (c.taken \/ env # c.env)
             d     == RemoveEnv(c)
  <2>1. d = [c EXCEPT !.env = env, !.taken = taken]
    BY <1>2 DEF RemoveEnv
  <2>2. env \in Env
    BY <1>0, StrippedIsEnv
  <2>3. taken \in BOOLEAN /\ (taken <=> (c.taken \/ env # c.env))
    OBVIOUS
  <2> HIDE DEF taken
  <2>4. /\ d \in Codes /\ d.prev = Absent /\ d.env = env /\ d.auto = c.auto /\ d.own = c.own
        /\ d.taken = taken
    <3> HIDE DEF env
    <3> QED
      BY <1>0, <1>2, <2>1, <2>2, <2>3 DEF Codes
  <2>5. c.own.env \in Env
    BY <1>0 DEF Codes, UserFiles
  <2>6. env = c.own.env \/ (d.taken /\ env = Stripped(c.own.env))
    <3>1. c.env = c.own.env \/ (c.taken /\ c.env = Stripped(c.own.env))
      BY <1>2 DEF KeptCode
    <3>2. CASE c.env = c.own.env
      BY <2>3, <2>4, <3>2
    <3>3. CASE c.taken /\ c.env = Stripped(c.own.env)
      BY <2>3, <2>4, <2>5, <3>3, StrippedIsEnv
    <3> QED
      BY <3>1, <3>2, <3>3
  <2> HIDE DEF d, env
  <2>7. KeptCode(d)
    BY <1>2, <2>4, <2>6 DEF KeptCode
  <2> QED
    BY <2>4, <2>7 DEF d
<1> QED
  BY <1>1, <1>2

\* The user writes the file, or a variable that is not managed.
LEMMA WrittenIsKept == ASSUME NEW f \in CodeFiles PROVE KeptCode(WrittenByUser(f))
<1>1. f \in UserFiles /\ f.auto \in Values /\ f.env \in Env
  BY FilesAssumption DEF UserFiles, Values
<1>2. WrittenByUser(f) \in Codes
  BY <1>1 DEF WrittenByUser, Codes
<1> QED
  BY <1>2 DEF KeptCode, WrittenByUser

WithOther(env) == [Object(env) EXCEPT ![Other] = "user"]

LEMMA OtherIsSet ==
  ASSUME NEW env \in Env, env # Broken
  PROVE  /\ WithOther(env) \in [EnvVars -> Values] /\ WithOther(env) \in Env
         /\ WithOther(env) # Absent /\ WithOther(env) # Broken
         /\ Object(WithOther(env)) = WithOther(env)
         /\ \A v \in EnvVars : WithOther(env)[v] = IF v = Other THEN "user" ELSE Object(env)[v]
         /\ WithOther(env) # Object(Absent)
<1>1. Object(env) \in [EnvVars -> Values] /\ Other \in EnvVars /\ "user" \in Values
  BY Objects DEF EnvVars, Values
<1>2. /\ WithOther(env) \in [EnvVars -> Values]
      /\ \A v \in EnvVars : WithOther(env)[v] = IF v = Other THEN "user" ELSE Object(env)[v]
  BY <1>1 DEF WithOther
<1>3. WithOther(env) # Absent /\ WithOther(env) # Broken
  BY <1>2, SentinelsAssumption
<1>4. Object(WithOther(env)) = WithOther(env)
  BY <1>3 DEF Object
<1>5. WithOther(env)[Other] = "user" /\ Object(Absent)[Other] = None /\ None # "user"
  BY <1>1, <1>2, SentinelsAssumption DEF Object
<1>6. WithOther(env) # Object(Absent)
  BY <1>5
<1> QED
  BY <1>2, <1>3, <1>4, <1>6 DEF Env

\* It is the user's in what is there and in what is given back.
LEMMA OtherIsKept ==
  ASSUME NEW c, KeptCode(c), c.env # Broken
  PROVE  KeptCode([c EXCEPT !.env = WithOther(@), !.own.env = WithOther(@)])
<1> DEFINE env == WithOther(c.env)
           own == WithOther(c.own.env)
           d   == [c EXCEPT !.env = env, !.own.env = own]
<1>0. c \in Codes /\ c.env \in Env /\ c.own \in UserFiles /\ c.own.env \in Env
      /\ c.prev \in Records \cup {Absent} /\ Other \notin Keys
  BY OpsAssumption DEF KeptCode, Codes, UserFiles
<1>1. /\ env \in Env /\ env # Absent /\ env # Broken /\ env # Object(Absent)
      /\ env \in [EnvVars -> Values] /\ Object(env) = env
      /\ \A v \in EnvVars : env[v] = IF v = Other THEN "user" ELSE Object(c.env)[v]
  BY <1>0, OtherIsSet
<1>2. c.own.env # Broken
  <2>1. CASE c.prev = Absent
    <3>1. c.env = c.own.env \/ c.env = Stripped(c.own.env)
      BY <2>1 DEF KeptCode
    <3> QED
      BY <1>0, <3>1, StrippedIsEnv
  <2>2. CASE c.prev # Absent
    <3>1. Back(c.prev, c.env) = c.own.env \/ Back(c.prev, c.env) = Stripped(c.own.env)
      BY <1>0, <2>2, RestoredCode DEF KeptCode
    <3>2. Back(c.prev, c.env) # Broken
      <4>1. Object(c.env) \in [EnvVars -> Values] /\ c.prev \in Records
        BY <1>0, <2>2, Objects
      <4>2. BackOver(c.prev, c.env) \in [EnvVars -> Values]
        BY <4>1 DEF BackOver, Records
      <4> QED
        BY <4>2, SentinelsAssumption DEF Back
    <3> QED
      BY <1>0, <3>1, <3>2, StrippedIsEnv
  <2> QED
    BY <2>1, <2>2
<1>3. /\ own \in Env /\ own # Absent /\ own # Broken
      /\ own \in [EnvVars -> Values] /\ Object(c.own.env) \in [EnvVars -> Values]
      /\ \A v \in EnvVars : own[v] = IF v = Other THEN "user" ELSE Object(c.own.env)[v]
  BY <1>0, <1>2, OtherIsSet, Objects
<1> HIDE DEF env, own
<1>4. /\ d \in Codes /\ d.env = env /\ d.auto = c.auto /\ d.prev = c.prev /\ d.taken = c.taken
      /\ d.own \in UserFiles /\ d.own.env = own /\ d.own.auto = c.own.auto
  BY <1>0, <1>1, <1>3 DEF Codes, UserFiles
<1> HIDE DEF d
<1>5. Stripped(own) = [v \in EnvVars |-> IF v \in Keys THEN None ELSE own[v]]
  BY <1>3 DEF Stripped
<1>6. ASSUME c.prev = Absent PROVE KeptCode(d)
  <2>1. CASE c.env = c.own.env
    BY <1>4, <1>6, <2>1 DEF KeptCode, env, own
  <2>2. CASE c.taken /\ c.env = Stripped(c.own.env)
    <3>1. \A v \in EnvVars : Object(c.env)[v] = IF v \in Keys THEN None ELSE Object(c.own.env)[v]
      <4>1. CASE c.own.env = Absent
        BY <1>2, <2>2, <4>1 DEF Object, Stripped
      <4>2. CASE c.own.env # Absent
        BY <1>0, <1>2, <2>2, <4>2, StrippedIsEnv DEF Object, Stripped
      <4> QED
        BY <4>1, <4>2
    <3>2. \A v \in EnvVars : env[v] = Stripped(own)[v]
      BY <1>0, <1>1, <1>3, <1>5, <3>1
    <3>3. env = Stripped(own)
      BY <1>1, <1>5, <3>2
    <3>4. c.auto = c.own.auto
      BY <1>6 DEF KeptCode
    <3> QED
      BY <1>1, <1>4, <1>6, <2>2, <3>3, <3>4 DEF KeptCode
  <2> QED
    BY <1>6, <2>1, <2>2 DEF KeptCode
<1>7. ASSUME c.prev # Absent PROVE KeptCode(d)
  <2>1. /\ RestoreEnv(c).auto = c.prev.auto /\ RestoreEnv(c).env = Back(c.prev, c.env)
        /\ RestoreEnv(d).auto = c.prev.auto /\ RestoreEnv(d).env = Back(c.prev, env)
    BY <1>0, <1>4, <1>7, RestoredCode
  <2>2. c.env # Absent /\ Object(c.env) = c.env /\ c.prev \in Records
    BY <1>0, <1>7, Objects DEF KeptCode
  <2>3. /\ BackOver(c.prev, env) \in [EnvVars -> Values]
        /\ \A v \in EnvVars : BackOver(c.prev, env)[v] =
             IF v = Other THEN "user" ELSE BackOver(c.prev, c.env)[v]
        /\ BackOver(c.prev, c.env) \in [EnvVars -> Values]
    <3>1. Object(c.env) \in [EnvVars -> Values]
      BY <1>0, Objects
    <3>2. BackOver(c.prev, env) \in [EnvVars -> Values] /\ BackOver(c.prev, c.env) \in [EnvVars -> Values]
      BY <1>1, <2>2, <3>1 DEF BackOver, Records
    <3>3. ASSUME NEW v \in EnvVars
          PROVE  BackOver(c.prev, env)[v] = IF v = Other THEN "user" ELSE BackOver(c.prev, c.env)[v]
      BY <1>0, <1>1 DEF BackOver
    <3> QED
      BY <3>2, <3>3
  <2>4. Back(c.prev, env) = BackOver(c.prev, env)
    <3>1. BackOver(c.prev, env)[Other] = "user" /\ Object(Absent)[Other] = None /\ None # "user"
      BY <2>3, SentinelsAssumption DEF Object, EnvVars
    <3> QED
      BY <1>1, <3>1 DEF Back
  <2>5. Back(c.prev, c.env) = BackOver(c.prev, c.env)
        \/ (Back(c.prev, c.env) = Absent /\ BackOver(c.prev, c.env) = Object(Absent))
    BY DEF Back
  <2>6. Object(Back(c.prev, c.env)) = BackOver(c.prev, c.env)
    BY <2>3, <2>5, SentinelsAssumption DEF Object
  <2>7. CASE Back(c.prev, c.env) = c.own.env
    <3>1. \A v \in EnvVars : BackOver(c.prev, env)[v] = own[v]
      BY <1>3, <2>3, <2>6, <2>7
    <3>2. Back(c.prev, env) = own
      BY <1>3, <2>3, <2>4, <3>1
    <3> QED
      BY <1>1, <1>4, <1>7, <2>1, <3>2 DEF KeptCode
  <2>8. CASE c.taken /\ Back(c.prev, c.env) = Stripped(c.own.env)
    <3>1. \A v \in EnvVars : BackOver(c.prev, c.env)[v] =
             IF v \in Keys THEN None ELSE Object(c.own.env)[v]
      <4>1. CASE c.own.env = Absent
        BY <1>2, <2>6, <2>8, <4>1 DEF Object, Stripped
      <4>2. CASE c.own.env # Absent
        BY <1>0, <1>2, <2>6, <2>8, <4>2, StrippedIsEnv DEF Object, Stripped
      <4> QED
        BY <4>1, <4>2
    <3>2. \A v \in EnvVars : BackOver(c.prev, env)[v] = Stripped(own)[v]
      BY <1>0, <1>3, <1>5, <2>3, <3>1
    <3>3. Back(c.prev, env) = Stripped(own)
      BY <1>5, <2>3, <2>4, <3>2
    <3> QED
      BY <1>1, <1>4, <1>7, <2>1, <2>8, <3>3 DEF KeptCode
  <2> QED
    BY <1>7, <2>1, <2>7, <2>8 DEF KeptCode
<1> QED
  BY <1>6, <1>7 DEF d, env, own
-----------------------------------------------------------------------------
(* claude_desktop_config.json and the mirror it is in                      *)

\* The mode of before is there, or what is given back.
DeskKept(d) ==
  LET mode == IF d.prev = Absent THEN d.mode ELSE d.prev IN
    mode = d.own \/ (d.own = "3p" /\ mode = "1p")

MirrorKept(m) == (m # Absent /\ m.desk \notin {Absent, Broken}) => DeskKept(m.desk)

Good(m) == m # Absent => IsMirror(m) /\ MirrorKept(m)

LEMMA GoodMirrors ==
  /\ Types /\ ModeKept <=> /\ official \in Officials /\ IsMirror(held)
                           /\ mine \in Seq(Entries) /\ Own \notin ToSet(mine) /\ None \notin ToSet(mine)
                           /\ Good(mirror) /\ Good(backup)
<1>1. ModeKept <=> MirrorKept(mirror) /\ MirrorKept(backup)
  BY DEF ModeKept, MirrorKept, DeskKept
<1>2. \A m : m = Absent => MirrorKept(m)
  BY DEF MirrorKept
<1> QED
  BY <1>1, <1>2 DEF Types, Good

\* A file of the user.
LEMMA FileIsKept ==
  ASSUME NEW f \in [mode : Modes, servers : Servers]
  PROVE  FromFile(f) \in Desks /\ DeskKept(FromFile(f)) /\ FromFile(f) \notin {Absent, Broken}
<1>1. f.mode \in Modes /\ f.servers \in Servers
  OBVIOUS
<1>2. FromFile(f) \in Desks
  BY <1>1 DEF FromFile, Desks
<1>3. DeskKept(FromFile(f))
  BY DEF FromFile, DeskKept
<1> QED
  BY <1>2, <1>3, SentinelsAssumption

LEMMA EmptyIsKept == EmptyDesk \in Desks /\ DeskKept(EmptyDesk)
BY DEF EmptyDesk, Desks, DeskKept, NoServers, Servers, Modes

\* The official file is one.
LEMMA OfficialFile ==
  ASSUME official \in Officials, HasFile
  PROVE  official \in [mode : Modes, servers : Servers]
BY FilesAssumption DEF HasFile

LEMMA MergedServers ==
  ASSUME official \in Officials, NEW servers \in Servers, NEW names
  PROVE  /\ Merged(servers) \in Servers
         /\ Without(Merged(servers), names) \in Servers
         /\ \A n \in Names :
              /\ n \in names => Without(Merged(servers), names)[n] = None
              /\ (n \notin names /\ HasFile) =>
                   (official.servers[n] # None => Without(Merged(servers), names)[n] # None)
<1>1. HasFile => official.servers \in Servers
  BY OfficialFile
<1>2. /\ Merged(servers) \in Servers
      /\ \A n \in Names : (HasFile /\ official.servers[n] # None) => Merged(servers)[n] # None
  BY <1>1 DEF Merged, Servers
<1> QED
  BY <1>2 DEF Without, Servers

\* The third-party mode is put on, with a way back.
LEMMA ForcedDesk ==
  ASSUME official \in Officials, NEW d \in Desks, DeskKept(d), NEW e, e = Apply3p(d)
  PROVE  /\ e \in Desks /\ DeskKept(e) /\ e.mode = "3p" /\ e.prev # Absent
         /\ \A n \in Names :
              /\ n \in Retired => e.servers[n] = None
              /\ (n \notin Retired /\ HasFile) =>
                   (official.servers[n] # None => e.servers[n] # None)
<1> DEFINE prev == IF d.prev = Absent THEN d.mode ELSE d.prev
           servers == Without(Merged(d.servers), Retired)
<1>1. d.mode \in Modes /\ d.prev \in Modes \cup {Absent} /\ d.servers \in Servers /\ d.own \in Modes
  BY DEF Desks
<1>2. e = [d EXCEPT !.prev = prev, !.mode = "3p", !.servers = servers]
  BY DEF Apply3p
<1>3. prev \in Modes /\ prev # Absent /\ "3p" \in Modes
  BY <1>1, SentinelsAssumption DEF Modes
<1>4. /\ servers \in Servers
      /\ \A n \in Names :
              /\ n \in Retired => servers[n] = None
              /\ (n \notin Retired /\ HasFile) => (official.servers[n] # None => servers[n] # None)
  BY <1>1, MergedServers
<1>5. prev = d.own \/ (d.own = "3p" /\ prev = "1p")
  BY DEF DeskKept
<1> HIDE DEF prev, servers
<1>6. /\ e \in Desks /\ e.mode = "3p" /\ e.prev = prev /\ e.servers = servers /\ e.own = d.own
  BY <1>1, <1>2, <1>3, <1>4 DEF Desks
<1> HIDE DEF Modes, Servers, HasFile
<1> QED
  BY <1>3, <1>4, <1>5, <1>6 DEF DeskKept

\* The mode of before is put back.
LEMMA RestoredDesk ==
  ASSUME official \in Officials, NEW d \in Desks, DeskKept(d), NEW e, e = Restore1p(d)
  PROVE  /\ e \in Desks /\ DeskKept(e) /\ e.prev = Absent
         /\ e.mode = "3p" => e.own = "3p"
<1> DEFINE mode == IF d.prev # Absent THEN d.prev ELSE IF d.mode = "3p" THEN "1p" ELSE d.mode
           servers == Merged(d.servers)
<1>1. d.mode \in Modes /\ d.prev \in Modes \cup {Absent} /\ d.servers \in Servers /\ d.own \in Modes
  BY DEF Desks
<1>2. e = [d EXCEPT !.mode = mode, !.prev = Absent, !.servers = servers]
  BY DEF Restore1p
<1>3. mode \in Modes
  BY <1>1 DEF Modes
<1>4. servers \in Servers
  BY <1>1, MergedServers
<1>5. mode = d.own \/ (d.own = "3p" /\ mode = "1p")
  BY DEF DeskKept
<1> HIDE DEF mode, servers
<1>6. e \in Desks /\ e.mode = mode /\ e.prev = Absent /\ e.own = d.own
  BY <1>1, <1>2, <1>3, <1>4 DEF Desks
<1> QED
  BY <1>5, <1>6 DEF DeskKept

HasConfig(m) == m # Absent /\ m.config

\* A mirror with the library of the one there is.
Keeps(m) ==
  /\ Library(m) = Library(mirror)
  /\ HasConfig(m) <=> HasConfig(mirror)
  /\ m = Absent => mirror = Absent

LEMMA KeptLibrary ==
  ASSUME NEW m, Keeps(m)
  PROVE  /\ Whole(mirror) => Whole(m)
         /\ Applies(mirror) => Applies(m)
         /\ Bare(mirror) => Bare(m)
         /\ HeldIs(mirror) => HeldIs(m)
<1>1. Applies(mirror) => Applies(m)
  BY DEF Keeps, Applies, Library, HasConfig
<1>2. Bare(mirror) => Bare(m)
  BY DEF Keeps, Bare, Library, HasConfig
<1>3. HeldIs(mirror) => HeldIs(m)
  BY DEF Keeps, HeldIs, HasConfig
<1> QED
  BY <1>1, <1>2, <1>3 DEF Whole, Keeps

\* A mirror with another claude_desktop_config.json.
LEMMA NewDesk ==
  ASSUME NEW m, IsMirror(m), NEW desk \in Desks \cup {Absent, Broken},
         desk \notin {Absent, Broken} => DeskKept(desk),
         NEW n, n = [m EXCEPT !.desk = desk]
  PROVE  /\ n # Absent /\ Good(n) /\ n.desk = desk /\ Library(n) = m.meta
         /\ HasConfig(n) <=> m.config
<1>1. m \in Mirrors
  BY DEF IsMirror
<1>2. m.config \in BOOLEAN /\ m.meta \in Metas \cup {Absent}
  BY <1>1 DEF Mirrors
<1> HIDE DEF Desks, Metas
<1>3. n \in Mirrors /\ n.desk = desk /\ n.meta = m.meta
  BY <1>1, <1>2 DEF Mirrors
<1>4. n.config = m.config
  BY <1>1 DEF Mirrors
<1>5. n # Absent
  BY <1>3, SentinelsAssumption
<1>6. IsMirror(n)
  BY <1>3 DEF IsMirror
<1> QED
  BY <1>3, <1>4, <1>5, <1>6 DEF Good, MirrorKept, Library, HasConfig

LEMMA EmptyIsMirror == IsMirror(EmptyMirror) /\ EmptyMirror # Absent /\ Good(EmptyMirror)
<1>1. EmptyMirror \in Mirrors
  BY DEF EmptyMirror, Mirrors
<1>2. EmptyMirror # Absent
  BY <1>1, SentinelsAssumption
<1> QED
  BY <1>1, <1>2 DEF EmptyMirror, IsMirror, Good, MirrorKept

\* The directory is made, if it must be.
LEMMA DirKeeps ==
  ASSUME Good(mirror)
  PROVE  IsMirror(Dir) /\ Good(Dir) /\ Dir # Absent /\ Keeps(Dir)
         /\ Dir.meta = Library(mirror) /\ (Dir.config <=> HasConfig(mirror))
<1>1. CASE mirror = Absent
  BY <1>1, EmptyIsMirror DEF Dir, Keeps, Library, HasConfig, EmptyMirror
<1>2. CASE mirror # Absent
  BY <1>2 DEF Dir, Keeps, Library, HasConfig, Good
<1> QED
  BY <1>1, <1>2

\* Copies of the official profile keep the library.
LEMMA CopiesKeep ==
  ASSUME official \in Officials, Good(mirror), NEW m \in PartCopies \cup {Copied}
  PROVE  Good(m) /\ Keeps(m)
<1>1. IsMirror(Dir) /\ Good(Dir) /\ Dir # Absent /\ Keeps(Dir)
      /\ Dir.meta = Library(mirror) /\ (Dir.config <=> HasConfig(mirror))
  BY DirKeeps
<1>2. ASSUME NEW desk \in Desks \cup {Absent, Broken}, desk \notin {Absent, Broken} => DeskKept(desk),
             m = [Dir EXCEPT !.desk = desk]
      PROVE  Good(m) /\ Keeps(m)
  BY <1>1, <1>2, NewDesk DEF Keeps
<1>3. HasFile => FromFile(official) \in Desks /\ DeskKept(FromFile(official))
  BY OfficialFile, FileIsKept
<1>4. \/ m = mirror \/ m = Dir \/ (HasFile /\ m = [Dir EXCEPT !.desk = FromFile(official)])
      \/ m = [Dir EXCEPT !.desk = Broken]
  BY DEF PartCopies, Copied
<1>5. CASE m = mirror
  BY <1>5 DEF Keeps
<1>6. CASE m = Dir
  BY <1>1, <1>6
<1>7. CASE HasFile /\ m = [Dir EXCEPT !.desk = FromFile(official)]
  BY <1>2, <1>3, <1>7
<1>8. CASE m = [Dir EXCEPT !.desk = Broken]
  BY <1>2, <1>8
<1> QED
  BY <1>4, <1>5, <1>6, <1>7, <1>8

\* A mirror with another library.
LEMMA NewLibrary ==
  ASSUME NEW m, IsMirror(m), MirrorKept(m), NEW n \in Mirrors, n.desk = m.desk,
         n.meta # Absent => n.meta.entries \in Known
  PROVE  n # Absent /\ Good(n) /\ Library(n) = n.meta /\ (HasConfig(n) <=> n.config)
<1>1. n # Absent
  BY SentinelsAssumption
<1>2. m # Absent
  BY SentinelsAssumption DEF IsMirror
<1>3. IsMirror(n)
  BY DEF IsMirror
<1>4. MirrorKept(n)
  BY <1>2 DEF MirrorKept
<1> QED
  BY <1>1, <1>3, <1>4 DEF Good, Library, HasConfig

\* The program's entry is written behind the user's.
LEMMA UpsertedMeta ==
  ASSUME mine \in Seq(Entries), Own \notin ToSet(mine), NEW meta,
         meta # Absent => meta \in Metas /\ meta.entries \in Known,
         NEW new, new = Upserted(meta)
  PROVE  /\ new \in Metas /\ new # Absent /\ new.entries \in Known
         /\ new.applied = Own /\ Own \in ToSet(new.entries)
         /\ Lists(meta) => Lists(new)
<1> DEFINE rest == IF meta = Absent THEN <<>> ELSE Users(meta.entries)
<1>1. new = [entries |-> Append(rest, Own), applied |-> Own]
  BY DEF Upserted
<1>2. rest \in {mine, <<>>}
  BY KnownLists
<1>3. Lists(meta) => rest = mine
  BY KnownLists DEF Lists
<1> HIDE DEF rest
<1>4. /\ Append(rest, Own) \in Known /\ Append(rest, Own) \in Seq(Entries)
      /\ Own \in ToSet(Append(rest, Own))
  <2>1. Append(rest, Own) \in Known
    BY <1>2 DEF Known
  <2>2. ToSet(Append(rest, Own)) = ToSet(rest) \cup {Own}
    BY <1>2, KnownLists
  <2> QED
    BY <2>1, <2>2, KnownLists
<1>5. new \in Metas
  <2>1. Own \in Entries
    BY DEF Entries
  <2> HIDE DEF Entries
  <2> QED
    BY <1>1, <1>4, <2>1 DEF Metas
<1>6. new # Absent
  BY <1>5, SentinelsAssumption
<1> QED
  BY <1>1, <1>3, <1>4, <1>5, <1>6 DEF Lists

\* It is removed, and what is applied then is the user's.
LEMMA RemovedMeta ==
  ASSUME mine \in Seq(Entries), Own \notin ToSet(mine), NEW meta \in Metas, meta.entries \in Known,
         NEW new, new = Removed(meta)
  PROVE  /\ new \in Metas /\ new # Absent /\ new.entries \in Known
         /\ Own \notin ToSet(new.entries)
         /\ Lists(meta) => Lists(new)
         /\ (meta.applied # None => meta.applied \in ToSet(meta.entries)) =>
              (new.applied # None => new.applied \in ToSet(new.entries))
<1> DEFINE rest == Users(meta.entries)
           applied == IF meta.applied # Own THEN meta.applied
                      ELSE IF rest = <<>> THEN None ELSE Head(rest)
<1>1. new = [entries |-> rest, applied |-> applied]
  BY DEF Removed
<1>2. /\ rest \in {mine, <<>>} /\ rest \in Seq(Entries) /\ Own \notin ToSet(rest)
  BY KnownLists
<1>3. ToSet(meta.entries) \subseteq ToSet(rest) \cup {Own}
  <2>1. PICK e \in {mine, <<>>} : meta.entries \in {e, Append(e, Own)}
    BY DEF Known
  <2>2. Users(e) = e /\ Users(Append(e, Own)) = e /\ ToSet(Append(e, Own)) = ToSet(e) \cup {Own}
    BY KnownLists, UsersAreKept
  <2> QED
    BY <2>1, <2>2
<1>4. meta # Absent /\ (Lists(meta) => rest = mine)
  BY KnownLists, SentinelsAssumption DEF Lists
<1>5. rest # <<>> => Head(rest) \in ToSet(rest) /\ Head(rest) \in Entries
  <2>1. ASSUME rest # <<>> PROVE 1 \in DOMAIN rest /\ Head(rest) = rest[1] /\ rest[1] \in Entries
    <3> HIDE DEF rest, Entries
    <3> QED
      BY <1>2, <2>1
  <2> QED
    BY <2>1 DEF ToSet
<1>6. applied \in Entries \cup {None}
  BY <1>5 DEF Metas
<1>7. (meta.applied # None => meta.applied \in ToSet(meta.entries)) =>
        (applied # None => applied \in ToSet(rest))
  BY <1>3, <1>5
<1> HIDE DEF rest, applied
<1>8. new \in Metas /\ new.entries = rest /\ new.applied = applied
  BY <1>1, <1>2, <1>6 DEF Metas
<1>9. new # Absent
  BY <1>8, SentinelsAssumption
<1> QED
  BY <1>2, <1>4, <1>7, <1>8, <1>9 DEF Lists, Known
-----------------------------------------------------------------------------
(* A command from step to step                                             *)

\* The last step leaves nothing.
LEMMA RestOfAll == ASSUME NEW o \in Op PROVE Rest(o, Len(Steps(o)) + 1) = <<>>
<1> DEFINE s == Steps(o)
           m == Len(s)
           t == SubSeq(s, m + 1, m)
<1>1. s \in Seq(Step) /\ m \in Nat
  BY Places
<1> HIDE DEF s
<1>2. m + 1 \in 1 .. m + 1 /\ m \in (m + 1) - 1 .. m
  BY <1>1
<1>3. t \in Seq(Step) /\ Len(t) = m - (m + 1) + 1
  BY <1>1, <1>2, SubSeqProperties
<1>4. Len(t) = 0
  BY ONLY <1>1, <1>3
<1>5. t = <<>>
  BY <1>3, <1>4, EmptySeq
<1> QED
  BY <1>5 DEF Rest, s

\* A command that is at a step is at it in its list, and goes on with the next.
LEMMA Stepping ==
  ASSUME Course, NEW x \in Step, At(x)
  PROVE  \E n \in 1 .. Len(Steps(op)) :
           /\ op \in Op /\ Steps(op)[n] = x /\ Progress(n)
           /\ (todo' = Tail(todo) /\ op' = op /\ Progress(n + 1)') => Course'
<1>1. todo # <<>> /\ Head(todo) = x
  BY DEF At
<1>2. x \notin {"clear", "putback"}
  BY DEF Step
<1>3. ~Resting /\ ~Undoing
  BY <1>1, <1>2 DEF Resting, Undoing
<1>4. PICK n \in Nat : Working(n)
  BY <1>3 DEF Course
<1>5. op \in Op /\ n \in 1 .. Len(Steps(op)) + 1 /\ todo = Rest(op, n) /\ Progress(n)
  BY <1>4 DEF Working
<1> DEFINE s == Steps(op)
<1>6. s \in Seq(Step) /\ Len(s) \in Nat
  BY <1>5, Places
<1>7. n # Len(s) + 1
  BY <1>1, <1>5, RestOfAll
<1>8. n \in 1 .. Len(s) /\ n + 1 \in Nat /\ n + 1 \in 1 .. Len(s) + 1
  BY <1>5, <1>6, <1>7
<1>9. Head(todo) = s[n] /\ Tail(todo) = Rest(op, n + 1)
  <2> HIDE DEF s
  <2>1. Head(SubSeq(s, n, Len(s))) = s[n] /\ Tail(SubSeq(s, n, Len(s))) = SubSeq(s, n + 1, Len(s))
    BY <1>6, <1>8, RestOfSequence
  <2> QED
    BY <1>5, <2>1 DEF Rest, s
<1>10. ASSUME todo' = Tail(todo), op' = op, Progress(n + 1)'
       PROVE  Course'
  <2>1. op' \in Op /\ n + 1 \in 1 .. Len(Steps(op')) + 1 /\ todo' = Rest(op', n + 1)
    BY <1>5, <1>8, <1>9, <1>10
  <2>2. Working(n + 1)'
    BY <1>10, <2>1 DEF Working
  <2> QED
    BY <1>8, <2>2 DEF Course
<1> QED
  BY <1>1, <1>5, <1>8, <1>9, <1>10

\* A command that has succeeded has been through all its steps.
LEMMA AtTheEnd ==
  ASSUME Course, todo = <<>>, op # "none"
  PROVE  op \in Op /\ Len(Steps(op)) \in Nat /\ Progress(Len(Steps(op)) + 1)
<1>1. ~Resting /\ ~Undoing
  BY DEF Resting, Undoing
<1>2. PICK n \in Nat : Working(n)
  BY <1>1 DEF Course
<1>3. op \in Op /\ n \in 1 .. Len(Steps(op)) + 1 /\ todo = Rest(op, n) /\ Progress(n)
  BY <1>2 DEF Working
<1> DEFINE s == Steps(op)
<1>4. s \in Seq(Step) /\ Len(s) \in Nat
  BY <1>3, Places
<1>5. ASSUME n \in 1 .. Len(s) PROVE FALSE
  <2> HIDE DEF s
  <2>1. SubSeq(s, n, Len(s)) # <<>>
    BY <1>4, <1>5, RestOfSequence
  <2> QED
    BY <1>3, <2>1 DEF Rest, s
<1>6. n = Len(s) + 1
  BY <1>3, <1>4, <1>5
<1> QED
  BY <1>3, <1>4, <1>6

\* A step that fails leaves a command at rest.
LEMMA Stopping ==
  ASSUME Ended, Steady' PROVE Course'
BY DEF Ended, Course, Resting

\* A command at rest has kept the library.
LEMMA SteadyAtRest == ASSUME Course, todo = <<>> PROVE Steady
<1>1. CASE op = "none"
  <2>1. Resting
    BY <1>1 DEF Course, Resting, Undoing, Working, Op
  <2> QED
    BY <2>1 DEF Resting
<1>2. CASE op # "none"
  <2>1. PICK n \in Nat : n = Len(Steps(op)) + 1 /\ Progress(n)
    BY <1>2, AtTheEnd
  <2>2. CASE op = "reset"
    <3>1. n = 9
      BY <2>1, <2>2 DEF Steps
    <3>2. Rebuilding(9)
      BY <2>1, <2>2, <3>1 DEF Progress
    <3> QED
      BY <3>2 DEF Rebuilding, Steady
  <2> QED
    BY <2>1, <2>2 DEF Progress
<1> QED
  BY <1>1, <1>2

\* What a step has made of the profile.
LEMMA ProfileNext ==
  ASSUME Types, ModeKept, official' = official, mine' = mine,
         Good(mirror'), Good(backup'), IsMirror(held')
  PROVE  Types' /\ ModeKept'
<1>1. /\ official' \in Officials
      /\ mine' \in Seq(Entries) /\ Own \notin ToSet(mine') /\ None \notin ToSet(mine')
  BY DEF Types
<1>2. Known' = Known
  BY DEF Known
<1>3. /\ mirror' # Absent => IsMirror(mirror)'
      /\ backup' # Absent => IsMirror(backup)'
      /\ IsMirror(held)'
  BY <1>2 DEF Good, IsMirror
<1>4. ModeKept'
  BY DEF Good, MirrorKept, DeskKept, ModeKept
<1> QED
  BY <1>1, <1>3, <1>4 DEF Types

LEMMA LibraryNext ==
  ASSUME mine' = mine
  PROVE  /\ Whole(mirror)' <=> Whole(mirror')
         /\ Whole(backup)' <=> Whole(backup')
         /\ Applies(mirror)' <=> Applies(mirror')
         /\ Steady' <=> (~stranded' => Whole(mirror') /\ (mirror' = Absent => backup' = Absent))
BY DEF Whole, Lists, Applies, Library, Steady

\* A step that leaves the profile alone.
LEMMA SameProfile ==
  ASSUME Types, ModeKept, UNCHANGED <<official, profile, held, mine>>
  PROVE  /\ Types' /\ ModeKept'
         /\ Steady => Steady'
         /\ Forced => Forced'
<1>1. Types' /\ ModeKept'
  BY GoodMirrors, ProfileNext DEF profile, Types
<1>2. Steady => Steady'
  BY LibraryNext DEF profile, Steady
<1>3. Forced => Forced'
  BY DEF profile, Forced, HasFile
<1> QED
  BY <1>1, <1>2, <1>3

\* A step by a user, or that begins a command.
LEMMA BeginKeeps == ASSUME IInv, Begin PROVE IInv'
<1>1. UNCHANGED <<official, profile, held, mine, code>>
  BY DEF Begin
<1>2. Types' /\ ModeKept' /\ Steady'
  BY <1>1, SameProfile, SteadyAtRest DEF IInv, Begin, Idle
<1>3. KeptCode(code)'
  BY <1>1 DEF IInv, KeptCode, RestoreEnv, Stripped, Codes
<1>4. op' \in Op /\ todo' = Steps(op')
  BY OpsAssumption DEF Begin
<1>5. Steps(op') = Rest(op', 1) /\ 1 \in 1 .. Len(Steps(op')) + 1
  <2> DEFINE s == Steps(op')
  <2>1. s \in Seq(Step) /\ Len(s) \in Nat \ {0}
    BY <1>4, Places
  <2> HIDE DEF s
  <2>2. SubSeq(s, 1, Len(s)) = s
    <3>1. /\ SubSeq(s, 1, Len(s)) \in Seq(Step) /\ Len(SubSeq(s, 1, Len(s))) = Len(s) - 1 + 1
          /\ \A i \in 1 .. Len(s) - 1 + 1 : SubSeq(s, 1, Len(s))[i] = s[1 + i - 1]
      BY <2>1, SubSeqProperties
    <3>2. Len(SubSeq(s, 1, Len(s))) = Len(s) /\ \A i \in 1 .. Len(s) : SubSeq(s, 1, Len(s))[i] = s[i]
      BY <2>1, <3>1
    <3> QED
      BY <2>1, <3>1, <3>2, SeqEqual
  <2> QED
    BY <2>1, <2>2 DEF Rest, s
<1>6. Progress(1)'
  <2>1. Undone(1)' /\ Rebuilding(1)'
    BY DEF Undone, Rebuilding
  <2> QED
    BY <1>2, <2>1 DEF Progress
<1>7. Course'
  BY <1>4, <1>5, <1>6 DEF Course, Working
<1> QED
  BY <1>2, <1>3, <1>7 DEF IInv

\* At rest nothing that the user does to settings.json counts.
LEMMA UserKeeps ==
  ASSUME IInv, Idle, KeptCode(code'), code.prev = Absent => code'.prev = Absent,
         UNCHANGED <<official, profile, settings, op, todo, held, mine>>
  PROVE  IInv'
<1>1. Types' /\ ModeKept' /\ Steady'
  BY SameProfile, SteadyAtRest DEF IInv, Idle
<1>2. KeptCode(code)'
  BY DEF KeptCode, RestoreEnv, Stripped, Codes
<1>3. Course'
  <2>1. CASE op = "none"
    BY <1>1, <2>1 DEF Idle, Course, Resting
  <2>2. CASE op # "none"
    <3>1. PICK n \in Nat : n = Len(Steps(op)) + 1 /\ Progress(n)
      BY <2>2, AtTheEnd DEF IInv, Idle
    <3>2. op \in Op /\ n \in 1 .. Len(Steps(op)) + 1 /\ todo = Rest(op, n)
      BY <2>2, <3>1, AtTheEnd, RestOfAll DEF IInv, Idle
    <3>3. Progress(n)'
      <4>1. Undone(n) => Undone(n)'
        BY DEF Undone, profile, Library
      <4>2. Forced => Forced'
        BY SameProfile DEF IInv
      <4>3. Rebuilding(n) => Rebuilding(n)'
        BY DEF Rebuilding, HeldIs, Bare, Whole, Lists, Applies, Library, profile
      <4> QED
        BY <1>1, <3>1, <4>1, <4>2, <4>3 DEF Progress, profile
    <3>4. Working(n)'
      BY <3>2, <3>3 DEF Working
    <3> QED
      BY <3>4 DEF Course
  <2> QED
    BY <2>1, <2>2
<1> QED
  BY <1>1, <1>2, <1>3 DEF IInv

LEMMA EditCodeKeeps == ASSUME IInv, EditCode PROVE IInv'
<1>1. KeptCode(code') /\ code'.prev = Absent
  BY WrittenIsKept DEF EditCode, WrittenByUser
<1> QED
  BY <1>1, UserKeeps DEF EditCode

LEMMA SetOtherKeeps == ASSUME IInv, SetOther PROVE IInv'
<1>1. code' = [code EXCEPT !.env = WithOther(@), !.own.env = WithOther(@)]
  BY DEF SetOther, WithOther
<1>2. KeptCode(code) /\ code.env # Broken
  BY DEF IInv, SetOther
<1>3. KeptCode(code')
  BY <1>1, <1>2, OtherIsKept
<1>4. code'.prev = code.prev
  BY <1>1, <1>2 DEF KeptCode, Codes
<1> QED
  BY <1>3, <1>4, UserKeeps DEF SetOther
-----------------------------------------------------------------------------
(* The steps that leave the profile alone                                  *)

LEMMA SettingsKeep ==
  ASSUME IInv, SaveSettings \/ Look \/ ApplyBaseUrlEnv \/ RemoveBaseUrlEnv \/ RemoveSettings
  PROVE  IInv'
<1>1. Types /\ ModeKept /\ Course /\ KeptCode(code) /\ UNCHANGED <<official, profile, held, mine>> /\ Done
  BY DEF IInv, SaveSettings, Look, ApplyBaseUrlEnv, RemoveBaseUrlEnv, RemoveSettings, Done, Held
<1>2. Types' /\ ModeKept' /\ (Steady => Steady') /\ (Forced => Forced')
  BY <1>1, SameProfile
<1>3. KeptCode(code')
  <2>1. CASE UNCHANGED code
    BY <1>1, <2>1
  <2>2. CASE ApplyBaseUrlEnv
    BY <1>1, <2>2, ApplyKeepsCode DEF ApplyBaseUrlEnv
  <2>3. CASE RemoveBaseUrlEnv
    BY <1>1, <2>3, RemoveKeepsCode DEF RemoveBaseUrlEnv
  <2> QED
    BY <2>1, <2>2, <2>3 DEF SaveSettings, Look, RemoveSettings
<1>4. KeptCode(code)'
  BY <1>3 DEF KeptCode, RestoreEnv, Stripped, Codes
<1>5. PICK x \in Step : At(x) /\ \/ SaveSettings /\ x = "settings"
                                 \/ Look /\ x \in {"load", "port"}
                                 \/ ApplyBaseUrlEnv /\ x = "env"
                                 \/ RemoveBaseUrlEnv /\ x = "unenv"
                                 \/ RemoveSettings /\ x \in {"unsettings", "data"}
  BY DEF SaveSettings, Look, ApplyBaseUrlEnv, RemoveBaseUrlEnv, RemoveSettings, Step
<1>6. PICK n \in 1 .. Len(Steps(op)) :
        /\ op \in Op /\ Steps(op)[n] = x /\ Progress(n)
        /\ (todo' = Tail(todo) /\ op' = op /\ Progress(n + 1)') => Course'
  BY <1>1, <1>5, Stepping
<1>7. op' = op /\ todo' = Tail(todo) /\ n \in Nat
  BY <1>1 DEF Done
<1>8. mirror' = mirror /\ official' = official
  BY <1>1 DEF profile
<1>9. CASE op \in Removal /\ RemoveBaseUrlEnv /\ n \in {3, 8}
  <2>1. code'.prev = Absent /\ settings' = settings
    BY <1>1, <1>9, RemoveKeepsCode DEF RemoveBaseUrlEnv
  <2>2. Undone(n)
    BY <1>6, <1>9 DEF Progress
  <2>3. Undone(n + 1)'
    BY <1>8, <1>9, <2>1, <2>2 DEF Undone, Library
  <2>4. Progress(n + 1)'
    BY <1>2, <1>6, <1>7, <1>9, <2>3 DEF Progress, Removal
  <2> QED
    BY <1>2, <1>4, <1>6, <1>7, <2>4 DEF IInv
<1>10. CASE op \in Removal /\ RemoveSettings /\ n \in {5, 6, 10, 11}
  <2>1. code' = code /\ ~settings'
    BY <1>10 DEF RemoveSettings
  <2>2. Undone(n)
    BY <1>6, <1>10 DEF Progress
  <2>3. Undone(n + 1)'
    BY <1>8, <1>10, <2>1, <2>2 DEF Undone, Library
  <2>4. Progress(n + 1)'
    BY <1>2, <1>6, <1>7, <1>10, <2>3 DEF Progress, Removal
  <2> QED
    BY <1>2, <1>4, <1>6, <1>7, <2>4 DEF IInv
<1>11. CASE /\ op \notin {"reset"} \cup Removal
            /\ op = "save" => n \in {1, 4}
            /\ op = "resync" => n \in {1, 2, 3, 5, 6}
  <2>1. Progress(n + 1)'
    BY <1>2, <1>6, <1>7, <1>8, <1>11 DEF Progress
  <2> QED
    BY <1>2, <1>4, <1>6, <1>7, <2>1 DEF IInv
<1>12. \/ op \in Removal /\ RemoveBaseUrlEnv /\ n \in {3, 8}
       \/ op \in Removal /\ RemoveSettings /\ n \in {5, 6, 10, 11}
       \/ /\ op \notin {"reset"} \cup Removal
          /\ op = "save" => n \in {1, 4}
          /\ op = "resync" => n \in {1, 2, 3, 5, 6}
  <2>1. CASE SaveSettings /\ x = "settings"
    BY <1>6, <2>1, Places
  <2>2. CASE x \in {"load", "port", "env"}
    BY <1>6, <2>2, Places DEF Removal
  <2>3. CASE RemoveBaseUrlEnv /\ x = "unenv"
    BY <1>6, <2>3, Places DEF Removal
  <2>4. CASE RemoveSettings /\ x \in {"unsettings", "data"}
    BY <1>6, <2>4, Places
  <2> QED
    BY <1>5, <2>1, <2>2, <2>3, <2>4
<1> QED
  BY <1>9, <1>10, <1>11, <1>12
-----------------------------------------------------------------------------
(* The steps that write the mirror                                         *)

\* Whatever becomes of settings.json and the command, a step that keeps the
\* library of the mirror.
LEMMA SameLibrary ==
  ASSUME Types, ModeKept, Good(mirror'), Keeps(mirror'),
         UNCHANGED <<official, mine, backup, stranded, held>>
  PROVE  /\ Types' /\ ModeKept'
         /\ Steady => Steady'
         /\ \A n \in Nat : Rebuilding(n) => Rebuilding(n)'
<1>1. Types' /\ ModeKept'
  BY GoodMirrors, ProfileNext DEF Types
<1>2. /\ Whole(mirror) => Whole(mirror)'
      /\ Whole(backup) => Whole(backup)'
  <2>1. Whole(mirror) => Whole(mirror')
    BY KeptLibrary
  <2> QED
    BY <2>1, LibraryNext
<1>3. mirror' = Absent => mirror = Absent
  BY DEF Keeps
<1>4. Steady => Steady'
  BY <1>2, <1>3 DEF Steady
<1>5. /\ HeldIs(mirror) => HeldIs(mirror)'
      /\ HeldIs(backup) => HeldIs(backup)'
      /\ Bare(mirror) => Bare(mirror)'
  <2>1. HeldIs(mirror) => HeldIs(mirror')
    BY KeptLibrary
  <2>2. HeldIs(mirror)' <=> HeldIs(mirror')
    BY DEF HeldIs, Library
  <2>3. HeldIs(backup) => HeldIs(backup)'
    BY DEF HeldIs, Library
  <2>4. Bare(mirror) => Bare(mirror')
    BY KeptLibrary
  <2>5. Bare(mirror)' <=> Bare(mirror')
    BY DEF Bare
  <2> QED
    BY <2>1, <2>2, <2>3, <2>4, <2>5
<1>6. ASSUME NEW n \in Nat, Rebuilding(n) PROVE Rebuilding(n)'
  BY <1>2, <1>3, <1>5, <1>6 DEF Rebuilding
<1> QED
  BY <1>1, <1>4, <1>6

\* A copy is made of the official profile.
LEMMA CopyKeeps == ASSUME IInv, Copy \/ Ensure PROVE IInv'
<1>1. Types /\ ModeKept /\ Course /\ official \in Officials /\ Good(mirror) /\ Done
      /\ UNCHANGED <<official, mine, backup, stranded, held, code, settings>>
  BY GoodMirrors DEF IInv, Copy, Ensure, OnMirror, Done, Held
<1>2. Good(mirror') /\ Keeps(mirror')
  <2>1. mirror' \in {mirror, Copied}
    BY DEF Copy, Ensure, OnMirror
  <2>2. Keeps(mirror)
    BY DEF Keeps
  <2> QED
    BY <1>1, <2>1, <2>2, CopiesKeep
<1>3. Types' /\ ModeKept' /\ (Steady => Steady') /\ \A n \in Nat : Rebuilding(n) => Rebuilding(n)'
  BY <1>1, <1>2, SameLibrary
<1>4. KeptCode(code)'
  BY <1>1 DEF IInv, KeptCode, RestoreEnv, Stripped, Codes
<1>5. PICK x \in Step : At(x) /\ ((Copy /\ x = "copy") \/ (Ensure /\ x = "ensure"))
  BY DEF Copy, Ensure, Step
<1>6. PICK n \in 1 .. Len(Steps(op)) :
        /\ op \in Op /\ Steps(op)[n] = x /\ Progress(n)
        /\ (todo' = Tail(todo) /\ op' = op /\ Progress(n + 1)') => Course'
  BY <1>1, <1>5, Stepping
<1>7. op' = op /\ todo' = Tail(todo) /\ n \in Nat
  BY <1>1 DEF Done
<1>8. \/ op = "resync" /\ n \in {1, 3}
      \/ op = "save" /\ n \in {2, 5}
      \/ op = "launch"
      \/ op = "reset" /\ Ensure /\ n \in {4, 6}
  <2>1. CASE x = "copy"
    BY <1>6, <2>1, Places
  <2>2. CASE Ensure /\ x = "ensure"
    BY <1>6, <2>2, Places
  <2> QED
    BY <1>5, <2>1, <2>2
<1>9. CASE op = "reset" /\ Ensure /\ n \in {4, 6}
  <2>1. mirror' # Absent
    <3>1. mirror' = IF mirror = Absent THEN Copied ELSE mirror
      BY <1>9 DEF Ensure, OnMirror
    <3>2. Copied # Absent
      <4>1. Dir # Absent /\ IsMirror(Dir)
        BY <1>1, DirKeeps
      <4>2. HasFile => [Dir EXCEPT !.desk = FromFile(official)] # Absent
        BY <1>1, <4>1, NewDesk, OfficialFile, FileIsKept
      <4> QED
        BY <4>1, <4>2 DEF Copied
    <3> QED
      BY <3>1, <3>2
  <2>2. Rebuilding(n)'
    BY <1>3, <1>6, <1>7, <1>9 DEF Progress
  <2>3. Rebuilding(n + 1)'
    BY <1>9, <2>1, <2>2 DEF Rebuilding
  <2>4. Progress(n + 1)'
    BY <1>7, <1>9, <2>3 DEF Progress, Removal
  <2> QED
    BY <1>3, <1>4, <1>6, <1>7, <2>4 DEF IInv
<1>10. CASE op # "reset"
  <2>1. n > 3 /\ op = "save" => (mirror' # Absent /\ mirror'.config)
    <3>1. n > 3 /\ op = "save" => (mirror # Absent /\ mirror.config)
      BY <1>6 DEF Progress
    <3> QED
      BY <1>2, <3>1 DEF Keeps, HasConfig
  <2>2. Progress(n + 1)'
    BY <1>3, <1>6, <1>7, <1>8, <1>10, <2>1 DEF Progress, Removal
  <2> QED
    BY <1>3, <1>4, <1>6, <1>7, <2>2 DEF IInv
<1> QED
  BY <1>8, <1>9, <1>10

\* The third-party mode is put on.
LEMMA ApplyModeKeeps == ASSUME IInv, ApplyDeploymentMode PROVE IInv'
<1>1. Types /\ ModeKept /\ Course /\ official \in Officials /\ Good(mirror) /\ Done /\ At("3p")
      /\ UNCHANGED <<official, mine, backup, stranded, held, code, settings>>
  BY GoodMirrors DEF IInv, ApplyDeploymentMode, OnMirror, Done, Held
<1> DEFINE d == IF Dir.desk = Absent THEN EmptyDesk ELSE Dir.desk
           e == Apply3p(d)
<1>2. mirror' = [Dir EXCEPT !.desk = e]
  BY DEF ApplyDeploymentMode, OnMirror
<1>3. IsMirror(Dir) /\ Good(Dir) /\ Dir # Absent /\ Dir.meta = Library(mirror)
      /\ (Dir.config <=> HasConfig(mirror))
  BY <1>1, DirKeeps
<1>4. d \in Desks /\ DeskKept(d)
  <2>1. Dir.desk # Broken
    <3>1. CASE mirror = Absent
      <4>1. Dir.desk = Absent
        BY <3>1 DEF Dir, EmptyMirror
      <4> QED
        BY <4>1, SentinelsAssumption
    <3>2. CASE mirror # Absent
      BY <3>2 DEF Dir, ApplyDeploymentMode, Readable
    <3> QED
      BY <3>1, <3>2
  <2>2. Dir.desk \in Desks \cup {Absent, Broken}
    BY <1>3 DEF IsMirror, Mirrors
  <2>3. Dir.desk \notin {Absent, Broken} => DeskKept(Dir.desk)
    BY <1>3 DEF Good, MirrorKept
  <2> QED
    BY <2>1, <2>2, <2>3, EmptyIsKept
<1> HIDE DEF d
<1>5. /\ e \in Desks /\ DeskKept(e) /\ e.mode = "3p" /\ e.prev # Absent
      /\ \A s \in Names :
              /\ s \in Retired => e.servers[s] = None
              /\ (s \notin Retired /\ HasFile) =>
                   (official.servers[s] # None => e.servers[s] # None)
  BY <1>1, <1>4, ForcedDesk
<1> HIDE DEF e
<1>6. /\ mirror' # Absent /\ Good(mirror') /\ mirror'.desk = e /\ Library(mirror') = Dir.meta
      /\ HasConfig(mirror') <=> Dir.config
  BY <1>2, <1>3, <1>5, NewDesk
<1>7. Keeps(mirror')
  BY <1>3, <1>6 DEF Keeps
<1>8. Types' /\ ModeKept' /\ (Steady => Steady') /\ \A n \in Nat : Rebuilding(n) => Rebuilding(n)'
  BY <1>1, <1>6, <1>7, SameLibrary
<1>9. Forced'
  BY <1>1, <1>5, <1>6 DEF Forced, HasFile
<1>10. KeptCode(code)'
  BY <1>1 DEF IInv, KeptCode, RestoreEnv, Stripped, Codes
<1>11. PICK n \in 1 .. Len(Steps(op)) :
        /\ op \in Op /\ Steps(op)[n] = "3p" /\ Progress(n)
        /\ (todo' = Tail(todo) /\ op' = op /\ Progress(n + 1)') => Course'
  BY <1>1, Stepping DEF Step
<1>12. op' = op /\ todo' = Tail(todo) /\ n \in Nat
  BY <1>1 DEF Done
<1>13. (op = "save" /\ n = 6) \/ (op = "resync" /\ n = 4) \/ (op = "reset" /\ n = 7)
  BY <1>11, Places
<1>14. Progress(n + 1)'
  <2>1. CASE op = "save" /\ n = 6
    <3>1. mirror # Absent /\ mirror.config /\ Steady
      BY <1>11, <2>1 DEF Progress
    <3>2. mirror' # Absent /\ mirror'.config
      BY <1>7, <3>1 DEF Keeps, HasConfig
    <3> QED
      BY <1>8, <1>9, <1>12, <2>1, <3>1, <3>2 DEF Progress, Removal
  <2>2. CASE op = "resync" /\ n = 4
    BY <1>8, <1>9, <1>11, <1>12, <2>2 DEF Progress, Removal
  <2>3. CASE op = "reset" /\ n = 7
    <3>1. Rebuilding(7)'
      BY <1>8, <1>11, <2>3 DEF Progress
    <3>2. Rebuilding(8)'
      BY <3>1 DEF Rebuilding
    <3> QED
      BY <1>9, <1>12, <2>3, <3>2 DEF Progress, Removal
  <2> QED
    BY <1>13, <2>1, <2>2, <2>3
<1> QED
  BY <1>8, <1>10, <1>11, <1>12, <1>14 DEF IInv

\* The mode of before is put back.
LEMMA RestoreModeKeeps == ASSUME IInv, RestoreDeploymentMode PROVE IInv'
<1>1. Types /\ ModeKept /\ Course /\ official \in Officials /\ Good(mirror) /\ Done /\ At("1p")
      /\ UNCHANGED <<official, mine, backup, stranded, held, code, settings>>
  BY GoodMirrors DEF IInv, RestoreDeploymentMode, OnMirror, Done, Held
<1>2. /\ Good(mirror') /\ Keeps(mirror')
      /\ mirror' # Absent =>
           /\ mirror'.desk # Broken
           /\ mirror'.desk # Absent =>
                /\ mirror'.desk.prev = Absent
                /\ mirror'.desk.mode = "3p" => mirror'.desk.own = "3p"
  <2>1. CASE mirror = Absent \/ mirror.desk = Absent
    <3>1. mirror' = mirror
      BY <2>1 DEF RestoreDeploymentMode, OnMirror
    <3> QED
      BY <1>1, <2>1, <3>1 DEF Keeps, RestoreDeploymentMode, Readable
  <2>2. CASE mirror # Absent /\ mirror.desk # Absent
    <3> DEFINE e == Restore1p(mirror.desk)
    <3>1. mirror' = [mirror EXCEPT !.desk = e]
      BY <2>2 DEF RestoreDeploymentMode, OnMirror
    <3>2. IsMirror(mirror) /\ mirror.desk \in Desks /\ DeskKept(mirror.desk)
      BY <1>1, <2>2 DEF Good, IsMirror, Mirrors, MirrorKept, RestoreDeploymentMode, Readable
    <3>3. e \in Desks /\ DeskKept(e) /\ e.prev = Absent /\ (e.mode = "3p" => e.own = "3p")
      BY <1>1, <3>2, RestoredDesk
    <3> HIDE DEF e
    <3>4. e \notin {Absent, Broken}
      BY <3>3, SentinelsAssumption
    <3>5. /\ mirror' # Absent /\ Good(mirror') /\ mirror'.desk = e /\ Library(mirror') = mirror.meta
          /\ HasConfig(mirror') <=> mirror.config
      BY <3>1, <3>2, <3>3, NewDesk
    <3> QED
      BY <2>2, <3>3, <3>4, <3>5 DEF Keeps, Library, HasConfig
  <2> QED
    BY <2>1, <2>2
<1>3. Types' /\ ModeKept' /\ (Steady => Steady')
  BY <1>1, <1>2, SameLibrary
<1>4. KeptCode(code)'
  BY <1>1 DEF IInv, KeptCode, RestoreEnv, Stripped, Codes
<1>5. PICK n \in 1 .. Len(Steps(op)) :
        /\ op \in Op /\ Steps(op)[n] = "1p" /\ Progress(n)
        /\ (todo' = Tail(todo) /\ op' = op /\ Progress(n + 1)') => Course'
  BY <1>1, Stepping DEF Step
<1>6. op' = op /\ todo' = Tail(todo) /\ n \in Nat
  BY <1>1 DEF Done
<1>7. op \in Removal /\ n \in {4, 9}
  BY <1>5, Places
<1>8. Undone(n) /\ Steady
  BY <1>5, <1>7 DEF Progress, Removal
<1>9. Undone(n + 1)'
  <2>1. Library(mirror') # Absent => Own \notin ToSet(mirror'.meta.entries)
    BY <1>2, <1>7, <1>8 DEF Undone, Keeps, Library
  <2>2. mirror' # Absent => ~mirror'.config
    BY <1>2, <1>7, <1>8 DEF Undone, Keeps, HasConfig
  <2> QED
    BY <1>1, <1>2, <1>7, <1>8, <2>1, <2>2 DEF Undone, Library
<1>10. Progress(n + 1)'
  BY <1>3, <1>6, <1>7, <1>8, <1>9 DEF Progress, Removal
<1> QED
  BY <1>3, <1>4, <1>5, <1>6, <1>10 DEF IInv

\* Whatever becomes of the command, a step that writes the library.
LEMMA OtherLibrary ==
  ASSUME Types, ModeKept, Good(mirror'), mirror' # Absent, Steady,
         Lists(Library(mirror)) => Lists(Library(mirror')),
         Applies(mirror) => Applies(mirror'),
         UNCHANGED <<official, mine, backup, stranded, held>>
  PROVE  Types' /\ ModeKept' /\ Steady'
<1>1. Types' /\ ModeKept'
  BY GoodMirrors, ProfileNext DEF Types
<1>2. Whole(mirror) => Whole(mirror')
  BY DEF Whole
<1> QED
  BY <1>1, <1>2, LibraryNext DEF Steady

\* A save writes its entry.
LEMMA WriteMetaKeeps == ASSUME IInv, WriteMeta PROVE IInv'
<1>1. Types /\ ModeKept /\ Course /\ Good(mirror) /\ Done /\ At("meta")
      /\ mine \in Seq(Entries) /\ Own \notin ToSet(mine)
      /\ UNCHANGED <<official, mine, backup, stranded, held, code, settings>>
  BY GoodMirrors DEF IInv, WriteMeta, OnMirror, Done, Held
<1>2. PICK n \in 1 .. Len(Steps(op)) :
        /\ op \in Op /\ Steps(op)[n] = "meta" /\ Progress(n)
        /\ (todo' = Tail(todo) /\ op' = op /\ Progress(n + 1)') => Course'
  BY <1>1, Stepping DEF Step
<1>3. op' = op /\ todo' = Tail(todo) /\ n \in Nat
  BY <1>1 DEF Done
<1>4. op = "save" /\ n = 7
  BY <1>2, Places
<1>5. Steady /\ Forced /\ mirror # Absent /\ mirror.config
  BY <1>2, <1>4 DEF Progress
<1>6. IsMirror(mirror) /\ MirrorKept(mirror) /\ mirror.meta \in Metas \cup {Absent}
      /\ mirror.config \in BOOLEAN
  BY <1>1, <1>5 DEF Good, IsMirror, Mirrors
<1> DEFINE new == Upserted(mirror.meta)
<1>7. /\ new \in Metas /\ new # Absent /\ new.entries \in Known
      /\ new.applied = Own /\ Own \in ToSet(new.entries)
      /\ Lists(mirror.meta) => Lists(new)
  BY <1>1, <1>6, UpsertedMeta DEF IsMirror
<1>8. mirror' = [mirror EXCEPT !.meta = new]
  BY <1>5 DEF WriteMeta, OnMirror, Dir
<1> HIDE DEF new
<1>9. mirror' \in Mirrors /\ mirror'.desk = mirror.desk /\ mirror'.meta = new
  BY <1>6, <1>7, <1>8 DEF IsMirror, Mirrors
<1>10. /\ mirror' # Absent /\ Good(mirror') /\ mirror'.desk = mirror.desk /\ Library(mirror') = new
  BY <1>6, <1>7, <1>9, NewLibrary
<1>11. mirror'.meta = new /\ mirror'.config
  <2>1. mirror'.config = mirror.config
    BY <1>6, <1>8 DEF IsMirror, Mirrors
  <2> QED
    BY <1>5, <1>9, <2>1
<1>12. Lists(Library(mirror)) => Lists(Library(mirror'))
  BY <1>5, <1>7, <1>10 DEF Library
<1>13. Applies(mirror')
  BY <1>7, <1>11 DEF Applies
<1>14. Types' /\ ModeKept' /\ Steady'
  BY <1>1, <1>5, <1>10, <1>12, <1>13, OtherLibrary
<1>15. KeptCode(code)'
  BY <1>1 DEF IInv, KeptCode, RestoreEnv, Stripped, Codes
<1>16. Forced'
  BY <1>1, <1>5, <1>10 DEF Forced, HasFile
<1>17. Progress(n + 1)'
  BY <1>3, <1>4, <1>7, <1>10, <1>11, <1>14, <1>16 DEF Progress, Removal
<1> QED
  BY <1>2, <1>3, <1>14, <1>15, <1>17 DEF IInv

\* It writes the configuration.
LEMMA WriteConfigKeeps == ASSUME IInv, WriteConfig PROVE IInv'
<1>1. Types /\ ModeKept /\ Course /\ Good(mirror) /\ Done /\ At("config")
      /\ UNCHANGED <<official, mine, backup, stranded, held, code, settings>>
  BY GoodMirrors DEF IInv, WriteConfig, OnMirror, Done, Held
<1>2. PICK n \in 1 .. Len(Steps(op)) :
        /\ op \in Op /\ Steps(op)[n] = "config" /\ Progress(n)
        /\ (todo' = Tail(todo) /\ op' = op /\ Progress(n + 1)') => Course'
  BY <1>1, Stepping DEF Step
<1>3. op' = op /\ todo' = Tail(todo) /\ n \in Nat
  BY <1>1 DEF Done
<1>4. op = "save" /\ n = 3
  BY <1>2, Places
<1>5. Steady
  BY <1>2, <1>4 DEF Progress
<1>6. /\ IsMirror(Dir) /\ MirrorKept(Dir) /\ Dir # Absent
      /\ Dir.meta = Library(mirror) /\ (Dir.config <=> HasConfig(mirror))
      /\ Dir.meta \in Metas \cup {Absent}
  <2>1. /\ IsMirror(Dir) /\ Good(Dir) /\ Dir # Absent
        /\ Dir.meta = Library(mirror) /\ (Dir.config <=> HasConfig(mirror))
    BY <1>1, DirKeeps
  <2> QED
    BY <2>1 DEF Good, IsMirror, Mirrors
<1>7. mirror' = [Dir EXCEPT !.config = TRUE]
  BY DEF WriteConfig, OnMirror
<1>8. mirror' \in Mirrors /\ mirror'.desk = Dir.desk /\ mirror'.meta = Dir.meta /\ mirror'.config
  BY <1>6, <1>7 DEF IsMirror, Mirrors
<1>9. /\ mirror' # Absent /\ Good(mirror') /\ Library(mirror') = Library(mirror) /\ HasConfig(mirror')
  BY <1>6, <1>8, NewLibrary DEF IsMirror
<1>10. Applies(mirror) => Applies(mirror')
  BY <1>9 DEF Applies, Library, HasConfig
<1>11. Types' /\ ModeKept' /\ Steady'
  BY <1>1, <1>5, <1>9, <1>10, OtherLibrary
<1>12. KeptCode(code)'
  BY <1>1 DEF IInv, KeptCode, RestoreEnv, Stripped, Codes
<1>13. mirror'.config
  BY <1>9 DEF HasConfig
<1>14. Progress(n + 1)'
  BY <1>3, <1>4, <1>9, <1>11, <1>13 DEF Progress, Removal
<1> QED
  BY <1>2, <1>3, <1>11, <1>12, <1>14 DEF IInv

\* A removal takes the program's entry and configuration away.
LEMMA RemoveFilesKeeps == ASSUME IInv, RemoveMeta \/ RemoveConfig PROVE IInv'
<1>1. Types /\ ModeKept /\ Course /\ Good(mirror) /\ Done
      /\ mine \in Seq(Entries) /\ Own \notin ToSet(mine)
      /\ UNCHANGED <<official, mine, backup, stranded, held, code, settings>>
  BY GoodMirrors DEF IInv, RemoveMeta, RemoveConfig, OnMirror, Done, Held
<1>2. PICK x \in Step : At(x) /\ ((RemoveMeta /\ x = "unmeta") \/ (RemoveConfig /\ x = "unconfig"))
  BY DEF RemoveMeta, RemoveConfig, Step
<1>3. PICK n \in 1 .. Len(Steps(op)) :
        /\ op \in Op /\ Steps(op)[n] = x /\ Progress(n)
        /\ (todo' = Tail(todo) /\ op' = op /\ Progress(n + 1)') => Course'
  BY <1>1, <1>2, Stepping
<1>4. op' = op /\ todo' = Tail(todo) /\ n \in Nat
  BY <1>1 DEF Done
<1>5. /\ op \in Removal
      /\ (RemoveMeta /\ n \in {1, 6}) \/ (RemoveConfig /\ n \in {2, 7})
  <2>1. CASE RemoveMeta /\ x = "unmeta"
    BY <1>3, <2>1, Places
  <2>2. CASE RemoveConfig /\ x = "unconfig"
    BY <1>3, <2>2, Places
  <2> QED
    BY <1>2, <2>1, <2>2
<1>6. Undone(n) /\ Steady
  BY <1>3, <1>5 DEF Progress, Removal
<1>7. KeptCode(code)'
  BY <1>1 DEF IInv, KeptCode, RestoreEnv, Stripped, Codes
<1>8. /\ Types' /\ ModeKept' /\ Steady' /\ (mirror = Absent <=> mirror' = Absent)
      /\ mirror' # Absent => mirror'.desk = mirror.desk
      /\ Library(mirror') # Absent => Own \notin ToSet(mirror'.meta.entries)
      /\ RemoveConfig => (mirror' # Absent => ~mirror'.config)
      /\ (mirror' # Absent /\ mirror'.config) => mirror.config
  <2>1. CASE mirror = Absent \/ (RemoveMeta /\ mirror.meta = Absent)
    <3>1. mirror' = mirror
      BY <2>1 DEF RemoveMeta, RemoveConfig, OnMirror
    <3>2. Types' /\ ModeKept' /\ Steady'
      BY <1>1, <1>6, <3>1, SameLibrary DEF Keeps
    <3>3. RemoveMeta /\ RemoveConfig => FALSE
      BY DEF RemoveMeta, RemoveConfig, At
    <3>4. Library(mirror) = Absent
      BY <2>1 DEF Library
    <3> QED
      BY <2>1, <3>1, <3>2, <3>3, <3>4
  <2>2. CASE mirror # Absent /\ RemoveMeta /\ mirror.meta # Absent
    <3> DEFINE new == Removed(mirror.meta)
    <3>1. IsMirror(mirror) /\ MirrorKept(mirror) /\ mirror.meta \in Metas /\ mirror.config \in BOOLEAN
          /\ mirror.meta.entries \in Known
      BY <1>1, <2>2 DEF Good, IsMirror, Mirrors
    <3>2. /\ new \in Metas /\ new # Absent /\ new.entries \in Known
          /\ Own \notin ToSet(new.entries)
          /\ Lists(mirror.meta) => Lists(new)
          /\ (mirror.meta.applied # None => mirror.meta.applied \in ToSet(mirror.meta.entries)) =>
              (new.applied # None => new.applied \in ToSet(new.entries))
      BY <1>1, <3>1, RemovedMeta
    <3>3. mirror' = [mirror EXCEPT !.meta = new]
      BY <2>2 DEF RemoveMeta, OnMirror
    <3> HIDE DEF new
    <3>4. mirror' \in Mirrors /\ mirror'.desk = mirror.desk /\ mirror'.meta = new
      BY <3>1, <3>2, <3>3 DEF IsMirror, Mirrors
    <3>5. /\ mirror' # Absent /\ Good(mirror') /\ mirror'.desk = mirror.desk /\ Library(mirror') = new
      BY <3>1, <3>2, <3>4, NewLibrary
    <3>6. mirror'.meta = new /\ mirror'.config = mirror.config
      BY <3>1, <3>3, <3>4 DEF IsMirror, Mirrors
    <3>7. Lists(Library(mirror)) => Lists(Library(mirror'))
      BY <2>2, <3>2, <3>5 DEF Library
    <3>8. Applies(mirror) => Applies(mirror')
      BY <2>2, <3>2, <3>5, <3>6 DEF Applies, Library
    <3>9. Types' /\ ModeKept' /\ Steady'
      BY <1>1, <1>6, <3>5, <3>7, <3>8, OtherLibrary
    <3>10. RemoveConfig => FALSE
      BY <2>2 DEF RemoveMeta, RemoveConfig, At
    <3> QED
      BY <2>2, <3>2, <3>5, <3>6, <3>9, <3>10 DEF HasConfig
  <2>3. CASE mirror # Absent /\ RemoveConfig
    <3>1. IsMirror(mirror) /\ MirrorKept(mirror) /\ mirror.meta \in Metas \cup {Absent}
      BY <1>1, <2>3 DEF Good, IsMirror, Mirrors
    <3>2. mirror' = [mirror EXCEPT !.config = FALSE]
      BY <2>3 DEF RemoveConfig, OnMirror
    <3>3. mirror' \in Mirrors /\ mirror'.desk = mirror.desk /\ mirror'.meta = mirror.meta
          /\ ~mirror'.config
      BY <3>1, <3>2 DEF IsMirror, Mirrors
    <3>4. /\ mirror' # Absent /\ Good(mirror') /\ mirror'.desk = mirror.desk
          /\ Library(mirror') = mirror.meta /\ ~HasConfig(mirror')
      BY <3>1, <3>3, NewLibrary DEF IsMirror
    <3>5. RemoveMeta => FALSE
      BY <2>3 DEF RemoveMeta, RemoveConfig, At
    <3>6. mirror.meta # Absent => Own \notin ToSet(mirror.meta.entries)
      BY <1>5, <1>6, <2>3, <3>5 DEF Undone, Library
    <3>7. Applies(mirror) => Applies(mirror')
      BY <2>3, <3>4, <3>6 DEF Applies, Library
    <3>8. Lists(Library(mirror)) => Lists(Library(mirror'))
      BY <2>3, <3>4 DEF Library
    <3>9. Types' /\ ModeKept' /\ Steady'
      BY <1>1, <1>6, <3>4, <3>7, <3>8, OtherLibrary
    <3> QED
      BY <2>3, <3>4, <3>6, <3>9 DEF Library, HasConfig
  <2> QED
    BY <1>5, <2>1, <2>2, <2>3
<1>9. Undone(n + 1)'
  <2>1. code' = code /\ settings' = settings
    BY <1>1
  <2> QED
    BY <1>5, <1>6, <1>8, <2>1 DEF Undone, Library
<1>10. Progress(n + 1)'
  BY <1>4, <1>5, <1>8, <1>9 DEF Progress, Removal
<1> QED
  BY <1>3, <1>4, <1>7, <1>8, <1>10 DEF IInv
-----------------------------------------------------------------------------
(* The steps of a reset                                                    *)

LEMMA ReadKeeps == ASSUME IInv, ReadLibrary PROVE IInv'
<1>1. Types /\ ModeKept /\ Course /\ Good(mirror) /\ Good(backup) /\ Done /\ At("read")
      /\ UNCHANGED <<official, mine, mirror, backup, stranded, code, settings>>
  BY GoodMirrors DEF IInv, ReadLibrary, Done, Held, profile
<1>2. /\ held' # Absent /\ Good(held') /\ held'.meta = Library(mirror)
      /\ held'.config <=> HasConfig(mirror)
  <2>1. /\ IsMirror(Dir) /\ Dir.meta = Library(mirror) /\ (Dir.config <=> HasConfig(mirror))
    BY <1>1, DirKeeps
  <2>2. held' = [Dir EXCEPT !.desk = Absent]
    BY DEF ReadLibrary
  <2>3. /\ held' # Absent /\ Good(held') /\ Library(held') = Dir.meta
        /\ HasConfig(held') <=> Dir.config
    BY <2>1, <2>2, NewDesk
  <2> QED
    BY <2>1, <2>3 DEF Library, HasConfig
<1>3. Types' /\ ModeKept'
  BY <1>1, <1>2, ProfileNext DEF Good
<1>4. KeptCode(code)'
  BY <1>1 DEF IInv, KeptCode, RestoreEnv, Stripped, Codes
<1>5. HeldIs(mirror)'
  BY <1>1, <1>2 DEF HeldIs, Library, HasConfig
<1>6. PICK n \in 1 .. Len(Steps(op)) :
        /\ op \in Op /\ Steps(op)[n] = "read" /\ Progress(n)
        /\ (todo' = Tail(todo) /\ op' = op /\ Progress(n + 1)') => Course'
  BY <1>1, Stepping DEF Step
<1>7. op' = op /\ todo' = Tail(todo)
  BY <1>1 DEF Done
<1>8. op = "reset" /\ n = 1
  BY <1>6, Places
<1>9. Steady'
  BY <1>1, <1>6, <1>8, LibraryNext DEF Progress, Steady
<1>10. Progress(n + 1)'
  <2>1. Rebuilding(2)'
    BY <1>5 DEF Rebuilding
  <2> QED
    BY <1>7, <1>8, <1>9, <2>1 DEF Progress, Removal
<1> QED
  BY <1>3, <1>4, <1>6, <1>7, <1>10 DEF IInv

LEMMA DropOldKeeps == ASSUME IInv, DropOld PROVE IInv'
<1>1. Types /\ ModeKept /\ Course /\ Good(mirror) /\ Good(backup) /\ IsMirror(held) /\ Done
      /\ At("dropold") /\ UNCHANGED <<official, mine, mirror, stranded, code, settings, held>>
      /\ backup' = IF mirror = Absent THEN backup ELSE Absent
  BY GoodMirrors DEF IInv, DropOld, Done, Held
<1>2. Types' /\ ModeKept'
  BY <1>1, ProfileNext DEF Good
<1>3. KeptCode(code)'
  BY <1>1 DEF IInv, KeptCode, RestoreEnv, Stripped, Codes
<1>4. PICK n \in 1 .. Len(Steps(op)) :
        /\ op \in Op /\ Steps(op)[n] = "dropold" /\ Progress(n)
        /\ (todo' = Tail(todo) /\ op' = op /\ Progress(n + 1)') => Course'
  BY <1>1, Stepping DEF Step
<1>5. op' = op /\ todo' = Tail(todo)
  BY <1>1 DEF Done
<1>6. op = "reset" /\ n = 2
  BY <1>4, Places
<1>7. Steady /\ HeldIs(mirror)
  BY <1>4, <1>6 DEF Progress, Rebuilding
<1>8. ~stranded => backup' = Absent
  BY <1>1, <1>7 DEF Steady
<1>9. Steady'
  BY <1>1, <1>7, <1>8, LibraryNext DEF Steady
<1>10. HeldIs(mirror)'
  BY <1>1, <1>7 DEF HeldIs, Library
<1>11. Progress(n + 1)'
  <2>1. Rebuilding(3)'
    BY <1>1, <1>8, <1>10 DEF Rebuilding
  <2> QED
    BY <1>5, <1>6, <1>9, <2>1 DEF Progress, Removal
<1> QED
  BY <1>2, <1>3, <1>4, <1>5, <1>11 DEF IInv

LEMMA SetAsideKeeps == ASSUME IInv, SetAside PROVE IInv'
<1>1. Types /\ ModeKept /\ Course /\ Good(mirror) /\ Good(backup) /\ IsMirror(held) /\ Done
      /\ At("aside") /\ UNCHANGED <<official, mine, stranded, code, settings, held>>
      /\ IF mirror = Absent THEN UNCHANGED <<mirror, backup>>
         ELSE backup' = mirror /\ mirror' = Absent
  BY GoodMirrors DEF IInv, SetAside, Done, Held
<1>2. Types' /\ ModeKept'
  BY <1>1, ProfileNext DEF Good
<1>3. KeptCode(code)'
  BY <1>1 DEF IInv, KeptCode, RestoreEnv, Stripped, Codes
<1>4. PICK n \in 1 .. Len(Steps(op)) :
        /\ op \in Op /\ Steps(op)[n] = "aside" /\ Progress(n)
        /\ (todo' = Tail(todo) /\ op' = op /\ Progress(n + 1)') => Course'
  BY <1>1, Stepping DEF Step
<1>5. op' = op /\ todo' = Tail(todo)
  BY <1>1 DEF Done
<1>6. op = "reset" /\ n = 3
  BY <1>4, Places
<1>7. Steady /\ HeldIs(mirror) /\ (~stranded => backup = Absent)
  BY <1>4, <1>6 DEF Progress, Rebuilding
<1>8. ASSUME ~stranded
      PROVE  Bare(mirror') /\ Whole(backup') /\ HeldIs(backup')
  <2>1. CASE mirror = Absent
    BY <1>1, <1>7, <1>8, <2>1 DEF Steady, Bare
  <2>2. CASE mirror # Absent
    BY <1>1, <1>7, <1>8, <2>2 DEF Steady, Bare
  <2> QED
    BY <2>1, <2>2
<1>9. ~stranded => Bare(mirror)' /\ Whole(backup)' /\ HeldIs(backup)'
  <2>1. (HeldIs(backup') <=> HeldIs(backup)') /\ (Bare(mirror') <=> Bare(mirror)')
    BY <1>1 DEF HeldIs, Library, Bare
  <2> QED
    BY <1>1, <1>8, <2>1, LibraryNext
<1>10. Progress(n + 1)'
  <2>1. Rebuilding(4)'
    BY <1>1, <1>9 DEF Rebuilding
  <2> QED
    BY <1>5, <1>6, <2>1 DEF Progress, Removal
<1> QED
  BY <1>2, <1>3, <1>4, <1>5, <1>10 DEF IInv

LEMMA WriteLibraryKeeps == ASSUME IInv, WriteLibrary PROVE IInv'
<1> DEFINE config == (Dir.config \/ held.config)
           meta   == IF held.meta = Absent THEN Dir.meta ELSE held.meta
<1>1. Types /\ ModeKept /\ Course /\ Good(mirror) /\ Good(backup) /\ IsMirror(held) /\ Done
      /\ At("library") /\ UNCHANGED <<official, mine, stranded, code, settings, backup>>
      /\ held' = EmptyMirror
      /\ mirror' = [Dir EXCEPT !.config = config, !.meta = meta]
  BY GoodMirrors DEF IInv, WriteLibrary, Done, Held
<1>2. /\ IsMirror(Dir) /\ MirrorKept(Dir) /\ Dir # Absent
      /\ Dir.meta = Library(mirror) /\ (Dir.config <=> HasConfig(mirror))
  <2>1. /\ IsMirror(Dir) /\ Good(Dir) /\ Dir # Absent
        /\ Dir.meta = Library(mirror) /\ (Dir.config <=> HasConfig(mirror))
    BY <1>1, DirKeeps
  <2> QED
    BY <2>1 DEF Good
<1>3. /\ config \in BOOLEAN /\ (config <=> Dir.config \/ held.config)
      /\ meta \in Metas \cup {Absent} /\ (meta # Absent => meta.entries \in Known)
  BY <1>1, <1>2 DEF IsMirror, Mirrors
<1> HIDE DEF config
<1>4. mirror' \in Mirrors /\ mirror'.desk = Dir.desk /\ mirror'.meta = meta /\ mirror'.config = config
  <2> HIDE DEF meta
  <2> QED
    BY <1>1, <1>2, <1>3 DEF IsMirror, Mirrors
<1>5. /\ mirror' # Absent /\ Good(mirror') /\ Library(mirror') = meta
  <2> HIDE DEF meta
  <2> QED
    BY <1>2, <1>3, <1>4, NewLibrary
<1>6. Types' /\ ModeKept'
  BY <1>1, <1>5, ProfileNext, EmptyIsMirror
<1>7. KeptCode(code)'
  BY <1>1 DEF IInv, KeptCode, RestoreEnv, Stripped, Codes
<1>8. PICK n \in 1 .. Len(Steps(op)) :
        /\ op \in Op /\ Steps(op)[n] = "library" /\ Progress(n)
        /\ (todo' = Tail(todo) /\ op' = op /\ Progress(n + 1)') => Course'
  BY <1>1, Stepping DEF Step
<1>9. op' = op /\ todo' = Tail(todo)
  BY <1>1 DEF Done
<1>10. op = "reset" /\ n = 5
  BY <1>8, Places
<1>11. ~stranded => Bare(mirror) /\ Whole(backup) /\ HeldIs(backup)
  BY <1>8, <1>10 DEF Progress, Rebuilding
<1>12. ASSUME ~stranded PROVE Whole(mirror') /\ Whole(backup')
  <2>1. Library(mirror) = Absent /\ ~HasConfig(mirror)
    BY <1>11, <1>12 DEF Bare, Library, HasConfig
  <2>2. Library(mirror') = Library(backup)
    BY <1>2, <1>5, <1>11, <1>12, <2>1 DEF HeldIs
  <2>3. backup # Absent /\ backup.config => mirror'.config
    BY <1>3, <1>4, <1>11, <1>12 DEF HeldIs
  <2>4. Lists(Library(mirror')) /\ Applies(mirror')
    BY <1>11, <1>12, <2>2, <2>3, <1>5 DEF Whole, Applies, Library
  <2> QED
    BY <1>1, <1>11, <1>12, <2>4 DEF Whole
<1>13. Progress(n + 1)'
  <2>1. Rebuilding(6)'
    BY <1>1, <1>5, <1>12, LibraryNext DEF Rebuilding
  <2> QED
    BY <1>9, <1>10, <2>1 DEF Progress, Removal
<1> QED
  BY <1>6, <1>7, <1>8, <1>9, <1>13 DEF IInv

LEMMA CommitKeeps == ASSUME IInv, Commit PROVE IInv'
<1>1. Types /\ ModeKept /\ Course /\ Good(mirror) /\ IsMirror(held) /\ Done
      /\ At("commit") /\ UNCHANGED <<official, mine, mirror, stranded, code, settings, held>>
      /\ backup' = Absent
  BY GoodMirrors DEF IInv, Commit, Done, Held
<1>2. Types' /\ ModeKept'
  BY <1>1, ProfileNext DEF Good
<1>3. KeptCode(code)'
  BY <1>1 DEF IInv, KeptCode, RestoreEnv, Stripped, Codes
<1>4. PICK n \in 1 .. Len(Steps(op)) :
        /\ op \in Op /\ Steps(op)[n] = "commit" /\ Progress(n)
        /\ (todo' = Tail(todo) /\ op' = op /\ Progress(n + 1)') => Course'
  BY <1>1, Stepping DEF Step
<1>5. op' = op /\ todo' = Tail(todo)
  BY <1>1 DEF Done
<1>6. op = "reset" /\ n = 8
  BY <1>4, Places
<1>7. mirror # Absent /\ (~stranded => Whole(mirror)) /\ Forced
  BY <1>4, <1>6 DEF Progress, Rebuilding
<1>8. Whole(mirror) => Whole(mirror)'
  BY <1>1, LibraryNext
<1>9. Forced'
  BY <1>1, <1>7 DEF Forced, HasFile
<1>10. Progress(n + 1)'
  <2>1. Rebuilding(9)'
    BY <1>1, <1>7, <1>8 DEF Rebuilding
  <2> QED
    BY <1>5, <1>6, <1>9, <2>1 DEF Progress, Removal
<1> QED
  BY <1>2, <1>3, <1>4, <1>5, <1>10 DEF IInv
-----------------------------------------------------------------------------
(* Failures and the way back                                               *)

\* Only a reset is being undone.
LEMMA IsUndoing ==
  ASSUME Course, At("clear") \/ At("putback")
  PROVE  Undoing /\ (At("clear") => todo = <<"clear", "putback">>)
         /\ (At("putback") => todo = <<"putback">>)
<1>1. todo # <<>> /\ Head(todo) \in {"clear", "putback"}
  BY DEF At
<1>2. ASSUME NEW n \in Nat, Working(n) PROVE FALSE
  <2>1. op \in Op /\ n \in 1 .. Len(Steps(op)) + 1 /\ todo = Rest(op, n)
    BY <1>2 DEF Working
  <2> DEFINE s == Steps(op)
  <2>2. s \in Seq(Step) /\ Len(s) \in Nat
    BY <2>1, Places
  <2>3. n # Len(s) + 1
    BY <1>1, <2>1, RestOfAll
  <2>4. n \in 1 .. Len(s)
    BY <2>1, <2>2, <2>3
  <2>5. Head(todo) \in Step
    <3> HIDE DEF s
    <3>1. Head(SubSeq(s, n, Len(s))) = s[n] /\ s[n] \in Step
      BY <2>2, <2>4, RestOfSequence
    <3> QED
      BY <2>1, <3>1 DEF Rest, s
  <2> QED
    BY <1>1, <2>5 DEF Step
<1>3. Undoing
  BY <1>1, <1>2 DEF Course, Resting
<1> QED
  BY <1>3 DEF Undoing, At

LEMMA ClearKeeps == ASSUME IInv, Clear \/ ClearFails PROVE IInv'
<1>1. Types /\ ModeKept /\ Course /\ Good(mirror) /\ Good(backup) /\ IsMirror(held) /\ Done
      /\ At("clear") /\ UNCHANGED <<official, mine, backup, stranded, code, settings, held>>
  BY GoodMirrors DEF IInv, Clear, ClearFails, Done, Held
<1>2. Undoing /\ todo = <<"clear", "putback">>
  BY <1>1, IsUndoing
<1>3. mirror' \in {Absent, mirror, EmptyMirror}
  BY <1>1 DEF Clear, ClearFails, PartMirrors, At
<1>4. Types' /\ ModeKept' /\ (Applies(mirror) => Applies(mirror'))
  <2>1. Good(mirror')
    BY <1>1, <1>3, EmptyIsMirror DEF Good
  <2>2. Types' /\ ModeKept'
    BY <1>1, <2>1, ProfileNext
  <2>3. Library(Absent) = Absent /\ Library(EmptyMirror) = Absent
    BY DEF Library, EmptyMirror
  <2> QED
    BY <1>3, <2>2, <2>3 DEF Applies
<1>5. KeptCode(code)'
  BY <1>1 DEF IInv, KeptCode, RestoreEnv, Stripped, Codes
<1>6. op' = op /\ todo' = <<"putback">>
  BY <1>1, <1>2 DEF Done
<1>7. Undoing'
  <2>1. Whole(backup) => Whole(backup)'
    BY <1>1, LibraryNext
  <2>2. Applies(mirror) => Applies(mirror)'
    BY <1>1, <1>4, LibraryNext
  <2> QED
    BY <1>1, <1>2, <1>6, <2>1, <2>2 DEF Undoing
<1> QED
  BY <1>4, <1>5, <1>7 DEF IInv, Course

LEMMA PutBackKeeps == ASSUME IInv, PutBack \/ PutBackFails PROVE IInv'
<1>1. Types /\ ModeKept /\ Course /\ Good(mirror) /\ Good(backup) /\ Ended
      /\ At("putback") /\ UNCHANGED <<official, mine, code, settings>> /\ held' = EmptyMirror
  BY GoodMirrors DEF IInv, PutBack, PutBackFails, Ended, Held
<1>2. Undoing
  BY <1>1, IsUndoing
<1>3. \/ mirror' = backup /\ backup' = Absent /\ stranded' = stranded
      \/ mirror' = mirror /\ backup' = backup /\ stranded'
  BY DEF PutBack, PutBackFails
<1>4. Types' /\ ModeKept'
  <2>1. Good(mirror') /\ Good(backup')
    BY <1>1, <1>3 DEF Good
  <2> QED
    BY <1>1, <2>1, ProfileNext, EmptyIsMirror
<1>5. KeptCode(code)'
  BY <1>1 DEF IInv, KeptCode, RestoreEnv, Stripped, Codes
<1>6. Steady'
  BY <1>1, <1>2, <1>3, LibraryNext DEF Undoing
<1> QED
  BY <1>1, <1>4, <1>5, <1>6, Stopping DEF IInv

\* What a step that fails has made of the mirror.
LEMMA PartsKeep ==
  ASSUME official \in Officials, Good(mirror), IsMirror(held), NEW cut \in BOOLEAN, ~At("clear"),
         NEW m \in PartMirrors(cut)
  PROVE  /\ Good(m) /\ (m = Absent => mirror = Absent)
         /\ Keeps(m) \/ (cut /\ At("library"))
         /\ m = mirror \/ At("copy") \/ At("ensure") \/ (cut /\ At("library"))
         /\ Library(m) = Library(mirror)
         /\ HasConfig(mirror) => HasConfig(m)
         /\ HasConfig(m) => HasConfig(mirror) \/ held.config
<1>1. CASE (At("copy") /\ official # Absent) \/ (At("ensure") /\ mirror = Absent)
  <2>1. m \in PartCopies
    BY <1>1 DEF PartMirrors, At
  <2> QED
    BY <1>1, <2>1, CopiesKeep DEF Keeps
<1>2. CASE m = mirror
  BY <1>2 DEF Keeps
<1>3. CASE /\ At("library") /\ cut /\ m # mirror
  <2> DEFINE config == (Dir.config \/ held.config)
  <2>1. m = [Dir EXCEPT !.config = config]
    BY <1>3 DEF PartMirrors, At
  <2>2. /\ IsMirror(Dir) /\ MirrorKept(Dir) /\ Dir # Absent
        /\ Dir.meta = Library(mirror) /\ (Dir.config <=> HasConfig(mirror))
    BY DirKeeps DEF Good
  <2>3. config \in BOOLEAN /\ (config <=> Dir.config \/ held.config)
    OBVIOUS
  <2> HIDE DEF config
  <2>4. m \in Mirrors /\ m.desk = Dir.desk /\ m.meta = Dir.meta /\ m.config = config
    BY <2>1, <2>2, <2>3 DEF IsMirror, Mirrors
  <2>5. m # Absent /\ Good(m) /\ Library(m) = Dir.meta /\ (HasConfig(m) <=> m.config)
    BY <2>2, <2>4, NewLibrary DEF IsMirror
  <2> QED
    BY <1>3, <2>2, <2>3, <2>4, <2>5
<1>4. \/ (At("copy") /\ official # Absent) \/ (At("ensure") /\ mirror = Absent)
      \/ m = mirror \/ (At("library") /\ cut)
  <2>1. CASE ~(At("copy") /\ official # Absent) /\ ~(At("ensure") /\ mirror = Absent)
             /\ ~(At("library") /\ cut)
    <3>1. PartMirrors(cut) = {mirror}
      BY <2>1 DEF PartMirrors
    <3> QED
      BY <3>1
  <2> QED
    BY <2>1
<1> QED
  BY <1>1, <1>2, <1>3, <1>4

\* Where a command is that can fail.
LEMMA PlaceOfFailure ==
  ASSUME Course, todo # <<>>, ~At("clear"), ~At("putback")
  PROVE  \E n \in 1 .. Len(Steps(op)) :
           /\ op \in Op /\ Head(todo) = Steps(op)[n] /\ Steps(op)[n] \in Step /\ Progress(n) /\ n \in Nat
<1>1. ~Resting /\ ~Undoing
  BY DEF Resting, Undoing, At
<1>2. PICK n \in Nat : Working(n)
  BY <1>1 DEF Course
<1>3. op \in Op /\ n \in 1 .. Len(Steps(op)) + 1 /\ todo = Rest(op, n) /\ Progress(n)
  BY <1>2 DEF Working
<1> DEFINE s == Steps(op)
<1>4. s \in Seq(Step) /\ Len(s) \in Nat
  BY <1>3, Places
<1>5. n # Len(s) + 1
  BY <1>3, RestOfAll
<1>6. n \in 1 .. Len(s)
  BY <1>3, <1>4, <1>5
<1>7. Head(todo) = s[n] /\ s[n] \in Step
  <2> HIDE DEF s
  <2>1. Head(SubSeq(s, n, Len(s))) = s[n] /\ s[n] \in Step
    BY <1>4, <1>6, RestOfSequence
  <2> QED
    BY <1>3, <2>1 DEF Rest, s
<1> QED
  BY <1>3, <1>6, <1>7

\* What a command that ends at a step which fails leaves of the library.
LEMMA AfterFailure ==
  ASSUME IInv, todo # <<>>, ~At("clear"), ~At("putback"), ~stranded,
         ~(Guarded /\ backup # Absent), NEW cut \in BOOLEAN, NEW m \in PartMirrors(cut)
  PROVE  Whole(m) /\ (m = Absent => backup = Absent)
<1>1. official \in Officials /\ Good(mirror) /\ IsMirror(held) /\ Course
  BY GoodMirrors DEF IInv
<1>2. /\ m = Absent => mirror = Absent
      /\ Keeps(m) \/ (cut /\ At("library"))
      /\ Library(m) = Library(mirror)
  BY <1>1, PartsKeep
<1>3. PICK n \in 1 .. Len(Steps(op)) :
        op \in Op /\ Head(todo) = Steps(op)[n] /\ Steps(op)[n] \in Step /\ Progress(n) /\ n \in Nat
  BY <1>1, PlaceOfFailure
<1>4. At("library") => op = "reset" /\ n = 5
  BY <1>3, Places DEF At
<1>5. CASE op # "reset" \/ n =< 3
  <2>1. Steady /\ Keeps(m)
    BY <1>2, <1>3, <1>4, <1>5 DEF Progress
  <2> QED
    BY <1>2, <2>1, KeptLibrary DEF Steady
<1>6. CASE op = "reset" /\ n > 3
  <2>1. /\ n \in 4 .. 8
        /\ n \in {4, 5, 6, 7} => Steps(op)[n] \in {"ensure", "library", "3p"}
    BY <1>3, <1>6 DEF Steps
  <2>2. n \in {4, 5, 6, 7} => backup = Absent
    BY <1>3, <1>6, <2>1 DEF Guarded, At
  <2>3. Rebuilding(n)
    BY <1>3, <1>6 DEF Progress
  <2>4. CASE n \in {4, 5}
    <3>1. Bare(mirror) /\ Whole(Absent)
      BY <2>2, <2>3, <2>4 DEF Rebuilding
    <3>2. Library(m) = Absent /\ Library(Absent) = Absent
      BY <1>2, <3>1 DEF Bare, Library
    <3> QED
      BY <2>2, <2>4, <3>1, <3>2 DEF Whole, Applies
  <2>5. CASE n \in {6, 7, 8}
    <3>1. Whole(mirror) /\ mirror # Absent /\ Keeps(m)
      BY <1>2, <1>4, <2>3, <2>5 DEF Rebuilding
    <3> QED
      BY <1>2, <3>1, KeptLibrary
  <2> QED
    BY <2>1, <2>4, <2>5
<1> QED
  BY <1>3, <1>5, <1>6

LEMMA FailKeeps == ASSUME IInv, Fail PROVE IInv'
<1>1. /\ Types /\ ModeKept /\ Course /\ Good(mirror) /\ Good(backup) /\ IsMirror(held)
      /\ official \in Officials
      /\ todo # <<>> /\ ~At("clear") /\ ~At("putback")
      /\ mirror' \in PartMirrors(FALSE) /\ backup' \in PartBackups
      /\ UNCHANGED <<official, mine, code, settings, stranded>>
  BY GoodMirrors DEF IInv, Fail, Idle, Ended, Held
<1>2. Good(mirror') /\ Keeps(mirror')
  BY <1>1, PartsKeep
<1>3. /\ backup' \in {backup, EmptyMirror} /\ (backup = Absent => backup' = Absent)
      /\ ~At("commit") /\ ~At("dropold") => backup' = backup
  BY <1>1 DEF PartBackups
<1>4. Types' /\ ModeKept'
  <2>1. Good(backup')
    BY <1>1, <1>3, EmptyIsMirror
  <2>2. IsMirror(held')
    BY <1>1, EmptyIsMirror DEF Fail, Ended
  <2> QED
    BY <1>1, <1>2, <2>1, <2>2, ProfileNext
<1>5. KeptCode(code)'
  BY <1>1 DEF IInv, KeptCode, RestoreEnv, Stripped, Codes
<1>6. CASE Guarded /\ backup # Absent
  <2>1. todo' = <<"clear", "putback">> /\ op' = op /\ op = "reset"
    BY <1>6 DEF Fail, Guarded
  <2>2. backup' = backup
    BY <1>3, <1>6 DEF Guarded, At
  <2>3. PICK n \in 1 .. Len(Steps(op)) :
          op \in Op /\ Head(todo) = Steps(op)[n] /\ Steps(op)[n] \in Step /\ Progress(n) /\ n \in Nat
    BY <1>1, PlaceOfFailure
  <2>4. n \in 4 .. 7
    <3>1. Steps(op)[n] \in {"ensure", "library", "3p"}
      BY <1>6, <2>3 DEF Guarded, At
    <3> QED
      BY <2>1, <2>3, <3>1, Places
  <2>5. Rebuilding(n)
    BY <2>1, <2>3 DEF Progress
  <2>6. ASSUME ~stranded PROVE Whole(backup') /\ Applies(mirror')
    <3>1. Whole(backup)
      BY <1>6, <2>4, <2>5, <2>6 DEF Rebuilding
    <3>2. Applies(mirror)
      BY <2>4, <2>5, <2>6 DEF Rebuilding, Bare, Applies, Library, Whole
    <3> QED
      BY <1>2, <2>2, <3>1, <3>2, KeptLibrary
  <2>7. Undoing'
    BY <1>1, <1>6, <2>1, <2>2, <2>6, LibraryNext DEF Undoing
  <2> QED
    BY <1>4, <1>5, <2>7 DEF IInv, Course
<1>7. CASE ~(Guarded /\ backup # Absent)
  <2>1. Ended
    BY <1>7 DEF Fail
  <2>2. ~stranded => Whole(mirror') /\ (mirror' = Absent => backup = Absent)
    BY <1>1, <1>7, AfterFailure
  <2>3. Steady'
    BY <1>1, <1>3, <2>2, LibraryNext
  <2> QED
    BY <1>4, <1>5, <2>1, <2>3, Stopping DEF IInv
<1> QED
  BY <1>6, <1>7

LEMMA CrashKeeps == ASSUME IInv, Crash PROVE IInv'
<1>1. /\ Types /\ ModeKept /\ Course /\ Good(mirror) /\ Good(backup) /\ IsMirror(held)
      /\ official \in Officials
      /\ mirror' \in PartMirrors(TRUE) /\ backup' = Absent /\ Ended /\ held' = EmptyMirror
      /\ UNCHANGED <<official, mine, code, settings>>
      /\ ~stranded' => ~stranded
  BY GoodMirrors DEF IInv, Crash, Ended, Held
<1>2. Good(mirror')
  <2>1. CASE At("clear")
    <3>1. mirror' \in {mirror, EmptyMirror}
      BY <1>1, <2>1 DEF PartMirrors, At
    <3> QED
      BY <1>1, <3>1, EmptyIsMirror
  <2>2. CASE ~At("clear")
    BY <1>1, <2>2, PartsKeep
  <2> QED
    BY <2>1, <2>2
<1>3. Types' /\ ModeKept'
  BY <1>1, <1>2, ProfileNext, EmptyIsMirror DEF Good
<1>4. KeptCode(code)'
  BY <1>1 DEF IInv, KeptCode, RestoreEnv, Stripped, Codes
<1>5. ~stranded' => Whole(mirror')
  <2>1. CASE todo = <<>>
    <3>1. mirror' = mirror
      BY <1>1, <2>1, PartsKeep DEF At
    <3> QED
      BY <1>1, <2>1, <3>1, SteadyAtRest DEF Steady
  <2>2. CASE At("clear") \/ At("putback")
    <3>1. backup # Absent
      BY <1>1, <2>2, IsUndoing DEF Undoing
    <3>2. stranded'
      BY <2>2, <3>1 DEF Crash
    <3> QED
      BY <3>2
  <2>3. CASE todo # <<>> /\ ~At("clear") /\ ~At("putback")
    <3>1. ~stranded' => ~(Guarded /\ backup # Absent)
      BY DEF Crash
    <3> QED
      BY <1>1, <2>3, <3>1, AfterFailure
  <2> QED
    BY <2>1, <2>2, <2>3
<1>6. Steady'
  BY <1>1, <1>5, LibraryNext
<1> QED
  BY <1>1, <1>3, <1>4, <1>6, Stopping DEF IInv
-----------------------------------------------------------------------------
(* The theorems                                                            *)

LEMMA InitIInv == Init => IInv
<1> SUFFICES ASSUME Init PROVE IInv
  OBVIOUS
<1>1. /\ official \in Officials /\ backup = Absent /\ settings = FALSE
      /\ op = "none" /\ todo = <<>> /\ held = EmptyMirror
  BY DEF Init
<1>2. KeptCode(code)
  BY WrittenIsKept DEF Init
<1>3. \/ mirror = Absent /\ mine = <<>>
      \/ /\ mirror # Absent /\ mirror \in Mirrors /\ MirrorKept(mirror) /\ ~mirror.config
         /\ \/ mirror.meta = Absent /\ mine = <<>>
            \/ /\ mirror.meta \in Libraries /\ mirror.meta # Absent
               /\ mine = mirror.meta.entries
  <2>1. CASE mirror = Absent
    BY <2>1 DEF Init
  <2>2. CASE mirror # Absent
    <3>1. PICK d \in {Absent} \cup {FromFile(f) : f \in DeskFiles}, m \in {Absent} \cup Libraries :
            mirror = [desk |-> d, config |-> FALSE, meta |-> m]
      BY <2>2 DEF Init
    <3>2. d # Absent => d \in Desks /\ DeskKept(d)
      BY FilesAssumption, FileIsKept
    <3>3. m \in Metas \cup {Absent}
      BY LibrariesAssumption
    <3>4. mirror \in Mirrors /\ mirror.desk = d /\ mirror.meta = m /\ ~mirror.config
      BY <3>1, <3>2, <3>3 DEF Mirrors
    <3>5. MirrorKept(mirror)
      BY <3>2, <3>4 DEF MirrorKept
    <3>6. mine = IF m = Absent THEN <<>> ELSE m.entries
      BY <2>2, <3>4 DEF Init
    <3> QED
      BY <2>2, <3>4, <3>5, <3>6
  <2> QED
    BY <2>1, <2>2
<1>4. mine \in Seq(Entries) /\ Own \notin ToSet(mine) /\ None \notin ToSet(mine)
  <2>1. CASE mine = <<>>
    <3>1. <<>> \in Seq(Entries)
      OBVIOUS
    <3>2. ToSet(<<>>) = {}
      BY DEF ToSet
    <3> QED
      BY <2>1, <3>1, <3>2
  <2>2. CASE mirror # Absent /\ mirror.meta \in Libraries /\ mine = mirror.meta.entries
    BY <2>2, LibrariesAssumption DEF Metas
  <2> QED
    BY <1>3, <2>1, <2>2
<1>5. Good(mirror) /\ Good(backup) /\ IsMirror(held)
  <2>1. mirror # Absent => IsMirror(mirror)
    BY <1>3 DEF IsMirror, Known
  <2> QED
    BY <1>1, <1>3, <2>1, EmptyIsMirror DEF Good
<1>6. Types /\ ModeKept
  BY <1>1, <1>4, <1>5, GoodMirrors
<1>7. Whole(mirror)
  <2>1. Lists(Library(mirror))
    BY <1>3 DEF Lists, Library
  <2>2. Applies(mirror)
    <3>1. CASE mirror # Absent /\ mirror.meta \in Libraries
      <4>1. /\ Own \notin ToSet(mirror.meta.entries)
            /\ mirror.meta.applied \in ToSet(mirror.meta.entries) \cup {None}
        BY <3>1, LibrariesAssumption
      <4> QED
        BY <4>1 DEF Applies
    <3> QED
      BY <1>3, <3>1 DEF Applies, Library
  <2> QED
    BY <2>1, <2>2 DEF Whole
<1>8. Course
  BY <1>1, <1>7 DEF Course, Resting, Steady
<1> QED
  BY <1>2, <1>6, <1>8 DEF IInv

\* The inductive invariant holds at every step.
THEOREM InvCorrect == Spec => []IInv
<1>1. IInv /\ [Next]_vars => IInv'
  <2> SUFFICES ASSUME IInv, [Next]_vars PROVE IInv'
    OBVIOUS
  <2>1. CASE Next
    BY <2>1, BeginKeeps, EditCodeKeeps, SetOtherKeeps, SettingsKeep, CopyKeeps, WriteConfigKeeps,
       ApplyModeKeeps, RestoreModeKeeps, WriteMetaKeeps, RemoveFilesKeeps, ReadKeeps, DropOldKeeps,
       SetAsideKeeps, WriteLibraryKeeps, CommitKeeps, ClearKeeps, PutBackKeeps, FailKeeps, CrashKeeps
       DEF Next
  <2>2. CASE UNCHANGED vars
    <3>1. UNCHANGED <<official, profile, held, mine, settings, code, op, todo>>
      BY <2>2 DEF vars, profile
    <3>2. Types' /\ ModeKept' /\ (Steady => Steady') /\ (Forced => Forced')
      BY <3>1, SameProfile DEF IInv
    <3>3. KeptCode(code)'
      BY <3>1 DEF IInv, KeptCode, RestoreEnv, Stripped, Codes
    <3>4. Course'
      <4>1. Resting => Resting'
        BY <3>1, <3>2 DEF Resting
      <4>2. Undoing => Undoing'
        <5>1. (Whole(backup) => Whole(backup)') /\ (Applies(mirror) => Applies(mirror)')
          BY <3>1, LibraryNext DEF profile
        <5> QED
          BY <3>1, <5>1 DEF Undoing, profile
      <4>3. ASSUME NEW n \in Nat, Working(n) PROVE Working(n)'
        <5>1. Undone(n) => Undone(n)'
          BY <3>1 DEF Undone, profile, Library
        <5>2. Rebuilding(n) => Rebuilding(n)'
          BY <3>1 DEF Rebuilding, HeldIs, Bare, Whole, Lists, Applies, Library, profile
        <5>3. Progress(n)'
          BY <3>1, <3>2, <4>3, <5>1, <5>2 DEF Working, Progress, profile
        <5> QED
          BY <3>1, <4>3, <5>3 DEF Working
      <4> QED
        BY <4>1, <4>2, <4>3 DEF IInv, Course
    <3> QED
      BY <3>2, <3>3, <3>4 DEF IInv
  <2> QED
    BY <2>1, <2>2
<1> QED
  BY <1>1, InitIInv, PTL DEF Spec

\* The files, and what a reset has read of them, are what their sets say; a library
\* has the user's entries or none, and perhaps the program's behind them.
THEOREM FilesTyped == Spec => [](Types /\ code \in Codes)
<1>1. IInv => Types /\ code \in Codes
  BY DEF IInv, KeptCode
<1> QED
  BY <1>1, InvCorrect, PTL

\* Restoring settings.json and the deployment mode would give the user back what was
\* there, after every step, failure and crash.
THEOREM UsersValuesKeptSafe == Spec => []UsersValuesKept
<1>1. IInv => UsersValuesKept
  BY DEF IInv, KeptCode, UsersValuesKept, EnvKept
<1> QED
  BY <1>1, InvCorrect, PTL

\* No command loses, adds or reorders an entry of the user's library, and what it
\* applies is there.
THEOREM LibraryKeptSafe == Spec => []LibraryKept
<1>1. IInv => LibraryKept
  <2> SUFFICES ASSUME IInv, ~stranded
               PROVE  LET meta == IF mirror = Absent THEN Absent ELSE mirror.meta IN
                        /\ Idle => mine = IF meta = Absent THEN <<>> ELSE Users(meta.entries)
                        /\ (meta # Absent /\ meta.applied # None) =>
                             /\ meta.applied \in ToSet(meta.entries)
                             /\ meta.applied = Own => mirror.config
    BY DEF LibraryKept
  <2>1. Idle => mine = IF Library(mirror) = Absent THEN <<>> ELSE Users(mirror.meta.entries)
    <3> SUFFICES ASSUME Idle
                 PROVE  mine = IF Library(mirror) = Absent THEN <<>> ELSE Users(mirror.meta.entries)
      OBVIOUS
    <3>1. Lists(Library(mirror))
      BY SteadyAtRest DEF IInv, Idle, Steady, Whole
    <3>2. Users(mine) = mine /\ Users(Append(mine, Own)) = mine
      BY KnownLists DEF IInv, Types
    <3> QED
      BY <3>1, <3>2 DEF Lists, Library
  <2>2. Applies(mirror)
    <3>1. CASE Resting
      BY <3>1 DEF Resting, Steady, Whole
    <3>2. CASE Undoing
      BY <3>2 DEF Undoing
    <3>3. ASSUME NEW n \in Nat, Working(n) PROVE Applies(mirror)
      <4>1. Progress(n)
        BY <3>3 DEF Working
      <4>2. CASE op # "reset" \/ n =< 3
        BY <4>1, <4>2 DEF Progress, Steady, Whole
      <4>3. CASE op = "reset" /\ n > 3
        <5>1. Bare(mirror) \/ Whole(mirror)
          BY <4>1, <4>3 DEF Progress, Rebuilding
        <5> QED
          BY <5>1 DEF Bare, Whole, Applies, Library
      <4> QED
        BY <4>2, <4>3
    <3> QED
      BY <3>1, <3>2, <3>3 DEF IInv, Course
  <2> QED
    BY <2>1, <2>2 DEF Applies, Library
<1> QED
  BY <1>1, InvCorrect, PTL

\* A removal that succeeds has left nothing of this program.
THEOREM RestoreCompleteSafe == Spec => []RestoreComplete
<1>1. IInv => RestoreComplete
  <2> SUFFICES ASSUME IInv, NEW o \in Removal, Succeeded(o) PROVE RestoreComplete
    BY DEF RestoreComplete, Removal
  <2>1. op = o /\ todo = <<>> /\ op \in Removal /\ op # "none"
    BY DEF Succeeded, Idle, Removal
  <2>2. PICK n \in Nat : n = Len(Steps(op)) + 1 /\ Progress(n)
    BY <2>1, AtTheEnd DEF IInv
  <2>3. n > 5
    <3>1. CASE op = "restore"
      <4>1. Steps(op) = <<"unmeta", "unconfig", "unenv", "1p", "unsettings">>
        BY <3>1, RemovalSteps
      <4>2. Len(Steps(op)) = 5
        BY <4>1
      <4> QED
        BY <2>2, <4>2
    <3>2. CASE op = "purge"
      <4>1. Steps(op) = <<"unmeta", "unconfig", "unenv", "1p", "unsettings", "data">>
        BY <3>2, RemovalSteps
      <4>2. Len(Steps(op)) = 6
        BY <4>1
      <4> QED
        BY <2>2, <4>2
    <3>3. CASE op = "uninstall"
      <4>1. Steps(op) = <<"unmeta", "unconfig", "unenv", "1p", "unsettings",
                          "unmeta", "unconfig", "unenv", "1p", "unsettings", "data">>
        BY <3>3, RemovalSteps
      <4>2. Len(Steps(op)) = 11
        BY <4>1
      <4> QED
        BY <2>2, <4>2
    <3> QED
      BY <2>1, <3>1, <3>2, <3>3 DEF Removal
  <2>4. Undone(n)
    BY <2>1, <2>2 DEF Progress
  <2> QED
    BY <2>3, <2>4 DEF Undone, RestoreComplete, Library
<1> QED
  BY <1>1, InvCorrect, PTL

\* A save, synchronisation or reset that succeeds has put Claude Desktop on the
\* third-party mode, with every server of the official profile and a way back.
THEOREM InForceSafe == Spec => []InForce
<1>1. IInv => InForce
  <2> SUFFICES ASSUME IInv, NEW o \in {"save", "resync", "reset"}, Succeeded(o) PROVE InForce
    BY DEF InForce
  <2>1. op = o /\ todo = <<>> /\ op # "none"
    BY DEF Succeeded, Idle
  <2>2. PICK n \in Nat : n = Len(Steps(op)) + 1 /\ Progress(n)
    BY <2>1, AtTheEnd DEF IInv
  <2>3. n = IF op = "save" THEN 8 ELSE IF op = "resync" THEN 7 ELSE 9
    BY <2>1, <2>2 DEF Steps
  <2>4. Forced /\ (op = "save" => mirror.config /\ mirror.meta.applied = Own)
    BY <2>1, <2>2, <2>3 DEF Progress
  <2> QED
    BY <2>4 DEF Forced, InForce
<1> QED
  BY <1>1, InvCorrect, PTL
=============================================================================
