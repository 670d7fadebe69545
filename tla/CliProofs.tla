------------------------------ MODULE CliProofs ------------------------------
(***************************************************************************)
(* Proofs about CliSession, and through it CliRegistry, for any modules,   *)
(* decorators, functions and registries, and any command lines.            *)
(***************************************************************************)
EXTENDS CliSession, FiniteSetTheorems, SequenceTheorems, WellFoundedInduction, TLAPS

-----------------------------------------------------------------------------
(* Least elements.                                                         *)

LEMMA LeastExists ==
    ASSUME NEW T, T \subseteq Nat, T # {}
    PROVE  \E x \in T : \A y \in T : x <= y
<1> DEFINE R == OpToRel(<, Nat)
<1>1. IsWellFoundedOn(R, Nat)
  BY NatLessThanWellFounded
<1>2. ASSUME NEW x \in Nat, NEW y \in Nat, ~ (<<y, x>> \in R) PROVE x <= y
  BY <1>2 DEF OpToRel
<1> HIDE DEF R
<1>3. PICK x \in T : \A y \in T : ~ (<<y, x>> \in R)
  BY <1>1, WFMin
<1>4. ASSUME NEW y \in T PROVE x <= y
  <2>1. x \in Nat /\ y \in Nat /\ ~ (<<y, x>> \in R)
    BY <1>3
  <2>2. QED
    BY <2>1, <1>2
<1>5. QED
  BY <1>4

LEMMA FirstIsLeast ==
    ASSUME NEW T, T \subseteq Nat, T # {}
    PROVE  First(T) \in T /\ \A y \in T : First(T) <= y
  BY LeastExists DEF First

LEMMA GreatestExists ==
    ASSUME NEW n \in Nat, NEW T, T \subseteq 0 .. n, T # {}
    PROVE  \E x \in T : \A y \in T : y <= x
<1> DEFINE S == {n - x : x \in T}
<1>1. \A x \in T : x \in 0 .. n /\ n - x \in Nat /\ n - x \in S
  <2>1. ASSUME NEW x \in T PROVE x \in 0 .. n /\ n - x \in Nat
    BY SMT
  <2> QED BY <2>1
<1>2. S \subseteq Nat /\ S # {}
  BY <1>1
<1>3. \A s \in S : \E x \in T : s = n - x
  OBVIOUS
<1> HIDE DEF S
<1>4. PICK s \in S : \A t \in S : s <= t
  BY <1>2, LeastExists
<1>5. PICK x \in T : s = n - x
  BY <1>3
<1>6. ASSUME NEW y \in T PROVE y <= x
  <2>1. s <= n - y /\ x \in 0 .. n /\ y \in 0 .. n
    BY <1>1, <1>4
  <2> QED BY <2>1, <1>5
<1>7. QED
  BY <1>6

\* The i-th of a finite set of positions, by counting.
LEMMA NthExists ==
    ASSUME NEW n \in Nat, NEW S, S \subseteq 1 .. n, NEW i \in 1 .. Cardinality(S)
    PROVE  Nth(S, i) \in S /\ Cardinality({j \in S : j <= Nth(S, i)}) = i
<1> DEFINE upTo(m) == {j \in S : j <= m}
<1>1. IsFiniteSet(S)
  <2>1. IsFiniteSet(1 .. n)
    BY FS_Interval
  <2> QED BY <2>1, FS_Subset
<1>2. ASSUME NEW m PROVE IsFiniteSet(upTo(m)) /\ Cardinality(upTo(m)) \in Nat
  <2>1. upTo(m) \subseteq S
    OBVIOUS
  <2> HIDE DEF upTo
  <2> QED BY <2>1, <1>1, FS_Subset, FS_CardinalityType
<1>3. Cardinality(S) \in Nat /\ i \in Nat /\ 1 <= i /\ i <= Cardinality(S)
  BY <1>1, FS_CardinalityType
<1>4. \A j \in S : j \in Nat /\ 1 <= j /\ j <= n
  OBVIOUS
<1>5. upTo(n) = S
  BY <1>4
<1> DEFINE counted(m) == Cardinality(upTo(m))
           T == {m \in Nat : i <= counted(m)}
<1>6. n \in T
  BY <1>3, <1>5
<1>7. PICK m \in T : \A k \in T : m <= k
  <2>1. T \subseteq Nat /\ T # {}
    BY <1>6
  <2> HIDE DEF T
  <2> QED BY <2>1, LeastExists
<1>8. m # 0
  <2>0. \A j \in S : ~(j <= 0)
    BY <1>4
  <2>1. upTo(0) = {}
    BY <2>0
  <2>2. counted(0) = 0
    BY <2>1, FS_EmptySet
  <2> QED BY <2>2, <1>3, <1>7
<1>9. m - 1 \in Nat /\ m \in Nat /\ i <= counted(m)
  BY <1>7, <1>8
<1>10. counted(m - 1) < i
  <2>0. ~(m <= m - 1)
    BY <1>9
  <2>1. m - 1 \notin T
    <3> HIDE DEF T
    <3> QED BY <2>0, <1>7
  <2>2. counted(m - 1) \in Nat
    BY <1>2
  <2> QED BY <2>1, <2>2, <1>3, <1>9
<1>11. m \in S
  <2>1. SUFFICES ASSUME m \notin S PROVE FALSE
    OBVIOUS
  <2>2. \A j \in S : j <= m <=> j <= m - 1
    BY <2>1, <1>4, <1>9
  <2>3. upTo(m) = upTo(m - 1)
    BY <2>2
  <2>4. counted(m - 1) \in Nat
    BY <1>2
  <2> QED BY <2>3, <2>4, <1>3, <1>9, <1>10
<1>12. counted(m) = counted(m - 1) + 1
  <2>1. \A j \in S : j <= m <=> (j <= m - 1 \/ j = m)
    BY <1>4, <1>9
  <2>2. upTo(m) = upTo(m - 1) \cup {m}
    BY <2>1, <1>11
  <2>3. m \notin upTo(m - 1)
    BY <1>9
  <2>4. IsFiniteSet(upTo(m - 1))
    BY <1>2
  <2> HIDE DEF upTo
  <2> QED BY <2>2, <2>3, <2>4, FS_AddElement
<1>13. counted(m) = i
  <2>1. counted(m - 1) \in Nat
    BY <1>2
  <2> HIDE DEF counted
  <2> QED BY <2>1, <1>3, <1>9, <1>10, <1>12
<1>14. QED
  BY <1>11, <1>13 DEF Nth

-----------------------------------------------------------------------------
(* The tables of one registry: c its commands, l its aliases.              *)

Dashed == {w \in Word : w.dash # 0}
\* A literal is a string, but the provers do not know it.
Labels == STRING \cup {"dry_run"}
ArgumentRecord == [name : Labels, kind : Kinds, required : BOOLEAN, prompt : BOOLEAN,
                   again : BOOLEAN]

Entries == [name : Paths, fn : Functions, options : Seq(Dashed), confirm : BOOLEAN,
            arguments : Seq(ArgumentRecord)]

Distinct(args) == \A i, j \in DOMAIN args : args[i].name = args[j].name => i = j

\* A flag without a value is never required.
ArgumentsOK(args) ==
    /\ args \in Seq(ArgumentRecord) /\ Distinct(args)
    /\ \A i \in DOMAIN args : args[i].kind = "bool" => ~args[i].required

EntryOK(e) == e \in Entries /\ ArgumentsOK(e.arguments)

LookUp(c, l, path) == IF path \in DOMAIN c THEN c[path] ELSE c[l[Normal(path)]]

\* An entry has the name it is stored under.
OwnNames(c) == \A n \in DOMAIN c : n \in Paths /\ EntryOK(c[n]) /\ c[n].name = n

\* An alias stands for a command, and where groups are named without dashes for none
\* but itself if it names one.
OwnAliases(c, l) ==
    \A a \in DOMAIN l :
        /\ a \in Keys /\ l[a] \in DOMAIN c
        /\ PlainGroups => (a \in DOMAIN c => l[a] = a)

\* The options of a command that is no group's are its aliases.
OwnOptions(c, l) ==
    \A n \in DOMAIN c : Len(n) = 1 =>
        \A i \in DOMAIN c[n].options :
            LET key == Normal(<<c[n].options[i]>>) IN key \in DOMAIN l /\ l[key] = n

Sound(c, l) == OwnNames(c) /\ OwnAliases(c, l) /\ OwnOptions(c, l)

\* Whatever resolves goes on to resolve, to the same entry.
Keeps(c, l, d, m) ==
    \A path \in DOMAIN c \cup DOMAIN l :
        /\ path \in DOMAIN d \/ Normal(path) \in DOMAIN m
        /\ LookUp(d, m, path) = LookUp(c, l, path)

\* l with value v under keys K.
Extends(m, l, K, v) ==
    /\ DOMAIN m = DOMAIN l \cup K
    /\ \A k \in DOMAIN m : m[k] = IF k \in K THEN v ELSE l[k]

LEMMA WithExtends ==
    ASSUME NEW l, NEW K, NEW v
    PROVE  Extends(With(l, K, v), l, K, v) /\ Extends(l, l, {}, v)
  BY DEF With, Extends

\* Nothing is stripped from a path that begins without dashes, and nothing twice.
LEMMA NormalKey ==
    ASSUME NEW path \in Keys
    PROVE  Normal(path) = path /\ path \in Paths
<1>1. path \in Seq(Word) /\ path # <<>> /\ path[1].dash = 0
  BY DEF Keys, Paths
<1>2. path[1] \in Word /\ 1 \in DOMAIN path
  BY <1>1
<1>3. Plain(path[1].base) = path[1]
  BY <1>1, <1>2 DEF Plain, Word
<1>4. Normal(path) = [path EXCEPT ![1] = path[1]]
  BY <1>3 DEF Normal
<1>5. [path EXCEPT ![1] = path[1]] = path
  BY <1>1
<1>6. QED
  BY <1>1, <1>4, <1>5 DEF Paths

LEMMA NormalIsKey ==
    ASSUME NEW path \in Paths
    PROVE  Normal(path) \in Keys
<1>1. path \in Seq(Word) /\ path # <<>> /\ path[1] \in Word /\ 1 \in DOMAIN path
  BY DEF Paths
<1>2. Plain(path[1].base) \in Word /\ Plain(path[1].base).dash = 0
  BY <1>1 DEF Plain, Word
<1>3. Normal(path) = [path EXCEPT ![1] = Plain(path[1].base)]
  BY DEF Normal
<1>4. /\ Normal(path) \in Seq(Word) /\ Len(Normal(path)) = Len(path)
      /\ Normal(path)[1] = Plain(path[1].base)
  BY <1>1, <1>2, <1>3
<1>5. Normal(path) # <<>>
  BY <1>1, <1>4
<1>6. QED
  BY <1>2, <1>4, <1>5 DEF Keys, Paths

LEMMA NormalWord ==
    ASSUME NEW word \in Word
    PROVE  <<word>> \in Paths /\ Normal(<<word>>) \in Keys
<1>1. <<word>> \in Paths
  BY DEF Paths
<1>2. QED
  BY <1>1, NormalIsKey

\* A command is stored under a new name, with aliases that nobody has.
LEMMA AddCommand ==
    ASSUME NEW c, NEW l, NEW e, NEW m, NEW K, Sound(c, l), EntryOK(e),
           e.name \notin DOMAIN c \cup DOMAIN l,
           Extends(m, l, K, e.name),
           \A k \in K : /\ k \in Keys
                        /\ k \in DOMAIN l => l[k] = e.name
                        /\ k \in DOMAIN c => k = e.name,
           Len(e.name) = 1 =>
              \A i \in DOMAIN e.options : Normal(<<e.options[i]>>) \in K
    PROVE  Sound(With(c, {e.name}, e), m) /\ Keeps(c, l, With(c, {e.name}, e), m)
<1> DEFINE n == e.name
           d == With(c, {n}, e)
<1>1. /\ DOMAIN d = DOMAIN c \cup {n} /\ d[n] = e
      /\ \A k \in DOMAIN c : k # n /\ d[k] = c[k]
  BY DEF With
<1>2. n \in Paths
  BY DEF EntryOK, Entries
<1>3. /\ DOMAIN m = DOMAIN l \cup K
      /\ \A k \in DOMAIN l : k \notin K /\ m[k] = l[k]
      /\ \A k \in K : m[k] = n
  BY DEF Sound, OwnAliases, Extends
<1> HIDE DEF d
<1>4. OwnNames(d)
  BY <1>1, <1>2 DEF Sound, OwnNames
<1>5. OwnAliases(d, m)
  <2> SUFFICES ASSUME NEW a \in DOMAIN m
               PROVE  /\ a \in Keys /\ m[a] \in DOMAIN d
                      /\ PlainGroups => (a \in DOMAIN d => m[a] = a)
    BY DEF OwnAliases
  <2>1. CASE a \in DOMAIN l
    <3>1. /\ a # n /\ a \in Keys /\ l[a] \in DOMAIN c
          /\ PlainGroups => (a \in DOMAIN c => l[a] = a)
      BY <2>1 DEF Sound, OwnAliases
    <3> QED BY <2>1, <3>1, <1>1, <1>3
  <2>2. CASE a \in K
    BY <2>2, <1>1, <1>3
  <2> QED BY <2>1, <2>2, <1>3
<1>6. OwnOptions(d, m)
  <2> SUFFICES ASSUME NEW k \in DOMAIN d, Len(k) = 1, NEW i \in DOMAIN d[k].options
               PROVE  /\ Normal(<<d[k].options[i]>>) \in DOMAIN m
                      /\ m[Normal(<<d[k].options[i]>>)] = k
    BY DEF OwnOptions
  <2>1. CASE k = n
    BY <2>1, <1>1, <1>3
  <2>2. CASE k \in DOMAIN c
    <3>1. Normal(<<c[k].options[i]>>) \in DOMAIN l /\ l[Normal(<<c[k].options[i]>>)] = k
      BY <2>2, <1>1 DEF Sound, OwnOptions
    <3> QED BY <3>1, <2>2, <1>1, <1>3
  <2> QED BY <2>1, <2>2, <1>1
<1>7. Keeps(c, l, d, m)
  <2> SUFFICES ASSUME NEW path \in DOMAIN c \cup DOMAIN l
               PROVE  /\ path \in DOMAIN d \/ Normal(path) \in DOMAIN m
                      /\ LookUp(d, m, path) = LookUp(c, l, path)
    BY DEF Keeps
  <2>1. CASE path \in DOMAIN c
    BY <2>1, <1>1 DEF LookUp
  <2>2. CASE path \in DOMAIN l \ DOMAIN c
    <3>1. path \in Keys /\ l[path] \in DOMAIN c /\ path # n
      BY <2>2 DEF Sound, OwnAliases
    <3>2. Normal(path) = path
      BY <3>1, NormalKey
    <3> QED BY <3>1, <3>2, <2>2, <1>1, <1>3 DEF LookUp
  <2> QED BY <2>1, <2>2
<1>8. QED
  BY <1>4, <1>5, <1>6, <1>7 DEF Sound, d

\* Aliases that are free for a command are pointed to it.
LEMMA AddAliases ==
    ASSUME NEW c, NEW l, NEW n, NEW m, NEW K, Sound(c, l), n \in DOMAIN c,
           Extends(m, l, K, n),
           \A k \in K : /\ k \in Keys
                        /\ k \in DOMAIN l => l[k] = n
                        /\ PlainGroups => (k \in DOMAIN c => k = n)
    PROVE  Sound(c, m) /\ Keeps(c, l, c, m)
<1>1. /\ DOMAIN m = DOMAIN l \cup K
      /\ \A k \in DOMAIN l : m[k] = l[k]
      /\ \A k \in K : m[k] = n
  BY DEF Extends
<1>2. OwnAliases(c, m)
  <2> SUFFICES ASSUME NEW a \in DOMAIN m
               PROVE  /\ a \in Keys /\ m[a] \in DOMAIN c
                      /\ PlainGroups => (a \in DOMAIN c => m[a] = a)
    BY DEF OwnAliases
  <2>1. CASE a \in DOMAIN l
    BY <2>1, <1>1 DEF Sound, OwnAliases
  <2>2. CASE a \in K
    BY <2>2, <1>1
  <2> QED BY <2>1, <2>2, <1>1
<1>3. OwnOptions(c, m)
  <2> SUFFICES ASSUME NEW k \in DOMAIN c, Len(k) = 1, NEW i \in DOMAIN c[k].options
               PROVE  /\ Normal(<<c[k].options[i]>>) \in DOMAIN m
                      /\ m[Normal(<<c[k].options[i]>>)] = k
    BY DEF OwnOptions
  <2>1. Normal(<<c[k].options[i]>>) \in DOMAIN l /\ l[Normal(<<c[k].options[i]>>)] = k
    BY DEF Sound, OwnOptions
  <2> QED BY <2>1, <1>1
<1>4. Keeps(c, l, c, m)
  <2> SUFFICES ASSUME NEW path \in DOMAIN c \cup DOMAIN l
               PROVE  /\ path \in DOMAIN c \/ Normal(path) \in DOMAIN m
                      /\ LookUp(c, m, path) = LookUp(c, l, path)
    BY DEF Keeps
  <2>1. CASE path \in DOMAIN c
    BY <2>1 DEF LookUp
  <2>2. CASE path \in DOMAIN l \ DOMAIN c
    <3>1. path \in Keys
      BY <2>2 DEF Sound, OwnAliases
    <3>2. Normal(path) = path
      BY <3>1, NormalKey
    <3> QED BY <3>2, <2>2, <1>1 DEF LookUp
  <2> QED BY <2>1, <2>2
<1>5. QED
  BY <1>2, <1>3, <1>4 DEF Sound

LEMMA KeepsItself ==
    ASSUME NEW c, NEW l, Sound(c, l)
    PROVE  Keeps(c, l, c, l)
<1> SUFFICES ASSUME NEW path \in DOMAIN c \cup DOMAIN l
             PROVE  path \in DOMAIN c \/ Normal(path) \in DOMAIN l
  BY DEF Keeps
<1>1. CASE path \in DOMAIN l
  <2>1. path \in Keys
    BY <1>1 DEF Sound, OwnAliases
  <2> QED BY <2>1, <1>1, NormalKey
<1>2. QED
  BY <1>1

-----------------------------------------------------------------------------
(* The registries and the job under way.                                   *)

Staging == [args : Seq(Declaration), options : Seq(Dashed), confirm : BOOLEAN, dry : BOOLEAN]

\* What the todo of an import holds: decorators, and alias paths of a group.
Items == Decorators \cup [do : {"alias"}, target : Paths, paths : Seq(Paths)]

Imports == [kind : {"import"}, module : Modules, reg : Registries, todo : Seq(Items),
            staged : [Functions -> Staging]]
Merges == [kind : {"merge"}, reg : Registries, from : Registries, names : SUBSET Paths,
           links : SUBSET Keys]

\* Its paths are given without dashes.
Straight(item) ==
    /\ item.do = "alias" => item.paths \in Seq(Keys)
    /\ item.do = "group_register" => item.path \in Keys /\ item.alias_paths \in Seq(Keys)

\* Alias paths are left for a command that is registered already.
ItemOK(item, names) ==
    /\ item.do = "alias" => item.target \in names /\ item.paths # <<>>
    /\ PlainGroups => Straight(item)

ImportOK ==
    /\ job \in Imports
    /\ \A fn \in Functions : Distinct(job.staged[fn].args)
    /\ \A i \in 1 .. Len(job.todo) : ItemOK(job.todo[i], Names(job.reg))

MergeOK ==
    /\ job \in Merges /\ job.from # job.reg
    /\ job.names \subseteq Names(job.from) /\ job.links \subseteq Aliases(job.from)
    /\ job.names # {} => job.links = Aliases(job.from)

JobInv == job = NoJob \/ ImportOK \/ MergeOK

TablesInv ==
    /\ DOMAIN commands = Registries /\ DOMAIN aliases = Registries
    /\ \A r \in Registries : Sound(commands[r], aliases[r])

Stable ==
    \A r \in Registries :
        commands'[r] = EmptyRegistry \/ Keeps(commands[r], aliases[r], commands'[r], aliases'[r])

\* No command and no alias is lost or changed.
Grown ==
    \A q \in Registries :
        /\ Names(q) \subseteq Names(q)' /\ \A n \in Names(q) : commands'[q][n] = commands[q][n]
        /\ \A a \in Aliases(q) : a \in Aliases(q)' /\ aliases'[q][a] = aliases[q][a]

\* A step on the tables of one registry.
LEMMA OneRegistry ==
    ASSUME TablesInv, NEW r \in Registries,
           DOMAIN commands' = Registries, DOMAIN aliases' = Registries,
           \A q \in Registries \ {r} : commands'[q] = commands[q] /\ aliases'[q] = aliases[q],
           Sound(commands'[r], aliases'[r]),
           \/ commands'[r] = EmptyRegistry
           \/ Keeps(commands[r], aliases[r], commands'[r], aliases'[r])
    PROVE  TablesInv' /\ Stable
<1>1. \A q \in Registries : Sound(commands'[q], aliases'[q])
  BY DEF TablesInv
<1>2. TablesInv'
  BY <1>1 DEF TablesInv
<1>3. \A q \in Registries \ {r} : Keeps(commands[q], aliases[q], commands'[q], aliases'[q])
  BY KeepsItself DEF TablesInv
<1>4. QED
  BY <1>2, <1>3 DEF Stable

LEMMA SameTables ==
    ASSUME TablesInv, UNCHANGED <<commands, aliases>>
    PROVE  TablesInv' /\ Stable /\ Grown
<1>1. TablesInv'
  BY DEF TablesInv
<1>2. Stable
  BY KeepsItself DEF TablesInv, Stable
<1>3. Grown
  BY DEF Grown, Names, Aliases
<1>4. QED
  BY <1>1, <1>2, <1>3

\* The next decorator, or alias path, and what it says.
LEMMA NextItem ==
    ASSUME ImportOK, job.todo # <<>>
    PROVE  LET d == Head(job.todo) IN
           /\ d \in Items /\ ItemOK(d, Names(job.reg)) /\ job.reg \in Registries
           /\ d.do = "argument" => d.fn \in Functions /\ d.arg \in Declaration
           /\ d.do = "option" => d.fn \in Functions /\ d.flag \in Word
           /\ d.do \in {"confirm", "dry_run"} => d.fn \in Functions
           /\ d.do = "confirm" => d.asks \in BOOLEAN
           /\ d.do = "register" => d.fn \in Functions /\ d.name \in Seq(Word)
           /\ d.do = "group_register" =>
                 /\ d.fn \in Functions /\ d.path \in Paths
                 /\ d.alias_paths \in Seq(Paths) /\ d.name \in Seq(Word)
           /\ d.do = "alias" => d.target \in Paths /\ d.paths \in Seq(Paths)
<1> DEFINE d == Head(job.todo)
<1>1. job.todo \in Seq(Items) /\ job.reg \in Registries
  BY DEF ImportOK, Imports
<1>2. d \in Items /\ d = job.todo[1] /\ 1 \in 1 .. Len(job.todo)
  BY <1>1
<1>3. ItemOK(d, Names(job.reg))
  BY <1>2 DEF ImportOK
<1> HIDE DEF d
<1>4. /\ d.do = "argument" => d.fn \in Functions /\ d.arg \in Declaration
      /\ d.do = "option" => d.fn \in Functions /\ d.flag \in Word
      /\ d.do \in {"confirm", "dry_run"} => d.fn \in Functions
      /\ d.do = "confirm" => d.asks \in BOOLEAN
      /\ d.do = "register" => d.fn \in Functions /\ d.name \in Seq(Word)
  BY <1>2 DEF Items, Decorators
<1>5. /\ d.do = "group_register" =>
            /\ d.fn \in Functions /\ d.path \in Paths
            /\ d.alias_paths \in Seq(Paths) /\ d.name \in Seq(Word)
      /\ d.do = "alias" => d.target \in Paths /\ d.paths \in Seq(Paths)
  BY <1>2 DEF Items, Decorators
<1>6. QED
  BY <1>1, <1>2, <1>3, <1>4, <1>5 DEF d

-----------------------------------------------------------------------------
(* Steps of an import that only stage something.                           *)

\* What is left of an import after one item, which was replaced by those of front.
LEMMA GoesOn ==
    ASSUME ImportOK, job.todo # <<>>, NEW staged \in [Functions -> Staging],
           \A fn \in Functions : Distinct(staged[fn].args),
           NEW front \in Seq(Items),
           \A i \in 1 .. Len(front) : ItemOK(front[i], Names(job.reg)'),
           \A r \in Registries : Names(r) \subseteq Names(r)',
           job' = [job EXCEPT !.staged = staged, !.todo = front \o Tail(job.todo)]
    PROVE  ImportOK'
<1>1. job \in Imports /\ job.todo \in Seq(Items) /\ job.reg \in Registries
  BY DEF ImportOK, Imports
<1>2. Tail(job.todo) \in Seq(Items) /\ Len(Tail(job.todo)) = Len(job.todo) - 1
  BY <1>1
<1>3. front \o Tail(job.todo) \in Seq(Items)
  BY <1>2
<1>4. /\ job' \in Imports /\ job'.staged = staged /\ job'.reg = job.reg
      /\ job'.todo = front \o Tail(job.todo)
  BY <1>1, <1>3 DEF Imports
<1>5. Names(job.reg) \subseteq Names(job.reg)'
  BY <1>1, <1>4
<1>6. ASSUME NEW i \in 1 .. Len(job'.todo) PROVE ItemOK(job'.todo[i], Names(job.reg)')
  <2>1. CASE i \in 1 .. Len(front)
    <3>1. job'.todo[i] = front[i]
      BY <2>1, <1>2, <1>4
    <3> QED BY <3>1, <2>1
  <2>2. CASE i \notin 1 .. Len(front)
    <3> DEFINE k == i - Len(front)
    <3>1. k \in 1 .. Len(Tail(job.todo))
      BY <2>2, <1>2, <1>4
    <3>2. job'.todo[i] = Tail(job.todo)[k]
      BY <2>2, <1>2, <1>4
    <3>3. Tail(job.todo)[k] = job.todo[k + 1] /\ k + 1 \in 1 .. Len(job.todo)
      BY <3>1, <1>1, <1>2
    <3>4. ItemOK(job.todo[k + 1], Names(job.reg))
      BY <3>3 DEF ImportOK
    <3> HIDE DEF k
    <3> QED BY <3>2, <3>3, <3>4, <1>5 DEF ItemOK
  <2> QED BY <2>1, <2>2
<1>7. QED
  BY <1>4, <1>6 DEF ImportOK

LEMMA Stages ==
    ASSUME ImportOK, job.todo # <<>>, NEW fn \in Functions, NEW s \in Staging, Distinct(s.args),
           Goes([job EXCEPT !.staged[fn] = s]),
           \A r \in Registries : Names(r) \subseteq Names(r)'
    PROVE  ImportOK'
<1> DEFINE staged == [job.staged EXCEPT ![fn] = s]
<1>1. /\ job \in Imports /\ job.staged \in [Functions -> Staging] /\ job.todo \in Seq(Items)
      /\ \A f \in Functions : Distinct(job.staged[f].args)
  BY DEF ImportOK, Imports
<1>2. staged \in [Functions -> Staging] /\ \A f \in Functions : Distinct(staged[f].args)
  BY <1>1
<1>3. <<>> \o Tail(job.todo) = Tail(job.todo)
  BY <1>1
<1>4. job' = [job EXCEPT !.staged = staged, !.todo = Tail(job.todo)]
  BY <1>1 DEF Goes, Imports
<1>5. <<>> \in Seq(Items) /\ \A i \in 1 .. Len(<<>>) : ItemOK(<<>>[i], Names(job.reg)')
  OBVIOUS
<1> HIDE DEF staged
<1>6. job' = [job EXCEPT !.staged = staged, !.todo = <<>> \o Tail(job.todo)]
  BY <1>3, <1>4
<1>7. QED
  BY <1>2, <1>5, <1>6, GoesOn

LEMMA StagedType ==
    ASSUME ImportOK, NEW fn \in Functions
    PROVE  /\ Staged(fn) \in Staging /\ Distinct(Staged(fn).args)
           /\ Staged(fn).args \in Seq(Declaration) /\ Staged(fn).options \in Seq(Dashed)
  BY DEF ImportOK, Imports, Staged, Staging

\* The job is an import whose next item is of that kind.
LEMMA AtItem ==
    ASSUME JobInv, NEW what, At(what)
    PROVE  ImportOK /\ job.todo # <<>> /\ Head(job.todo).do = what
<1>1. job # NoJob
  BY DEF At, NoJob
<1>2. ~MergeOK
  BY DEF At, MergeOK, Merges
<1>3. QED
  BY <1>1, <1>2 DEF At, JobInv

LEMMA StagingSteps ==
    ASSUME JobInv, StageArgument \/ StageOption \/ StageConfirm \/ StageDryRun
                   \/ ContextFactory \/ Raise
    PROVE  JobInv'
<1> DEFINE d == Head(job.todo)
<1>0. \A r \in Registries : Names(r) \subseteq Names(r)'
  BY DEF StageArgument, StageOption, StageConfirm, StageDryRun, ContextFactory, Raise, Names
<1>1. ASSUME Fail PROVE JobInv'
  BY <1>1 DEF Fail, JobInv
<1>2. CASE StageArgument
  <2>1. At("argument")
    BY <1>2 DEF StageArgument
  <2>2. ImportOK /\ job.todo # <<>> /\ d.do = "argument"
    BY <2>1, AtItem
  <2>3. d.fn \in Functions /\ d.arg \in Declaration
    BY <2>2, NextItem
  <2> DEFINE s == [Staged(d.fn) EXCEPT !.args = <<d.arg>> \o @]
  <2>4. CASE ~Fail
    <3>1. /\ ~ \E i \in DOMAIN Staged(d.fn).args : Staged(d.fn).args[i].name = d.arg.name
          /\ Goes([job EXCEPT !.staged[d.fn].args = <<d.arg>> \o @])
      BY <1>2, <2>4 DEF StageArgument
    <3>2. Goes([job EXCEPT !.staged[d.fn] = s])
      BY <3>1 DEF Staged
    <3>3. /\ Staged(d.fn) \in Staging /\ Distinct(Staged(d.fn).args)
          /\ Staged(d.fn).args \in Seq(Declaration)
      BY <2>2, <2>3, StagedType
    <3>4. s \in Staging /\ s.args = <<d.arg>> \o Staged(d.fn).args
      <4>1. <<d.arg>> \o Staged(d.fn).args \in Seq(Declaration)
        BY <2>3, <3>3
      <4> QED BY <3>3, <4>1 DEF Staging
    <3>5. Distinct(<<d.arg>> \o Staged(d.fn).args)
      <4> DEFINE a == Staged(d.fn).args
                 b == <<d.arg>> \o a
      <4>1. a \in Seq(Declaration) /\ Distinct(a) /\ \A i \in DOMAIN a : a[i].name # d.arg.name
        BY <3>1, <3>3
      <4> HIDE DEF a
      <4>2. /\ DOMAIN b = 1 .. Len(a) + 1 /\ b[1] = d.arg
            /\ \A i \in 2 .. Len(a) + 1 : b[i] = a[i - 1] /\ i - 1 \in DOMAIN a
        BY <2>3, <4>1
      <4> HIDE DEF b
      <4>3. \A i, j \in DOMAIN b : b[i].name = b[j].name => i = j
        BY <4>1, <4>2 DEF Distinct
      <4> QED BY <4>3 DEF Distinct, a, b
    <3> HIDE DEF s, d
    <3> QED BY <1>0, <2>2, <2>3, <3>2, <3>4, <3>5, Stages DEF JobInv
  <2> QED BY <1>1, <2>4
<1>3. CASE StageOption
  <2>1. At("option")
    BY <1>3 DEF StageOption
  <2>2. ImportOK /\ job.todo # <<>> /\ d.do = "option"
    BY <2>1, AtItem
  <2>3. d.fn \in Functions /\ d.flag \in Word
    BY <2>2, NextItem
  <2> DEFINE s == [Staged(d.fn) EXCEPT !.options = <<d.flag>> \o @]
  <2>4. CASE ~Fail
    <3>1. d.flag.dash # 0 /\ Goes([job EXCEPT !.staged[d.fn].options = <<d.flag>> \o @])
      BY <1>3, <2>4 DEF StageOption
    <3>2. Goes([job EXCEPT !.staged[d.fn] = s])
      BY <3>1 DEF Staged
    <3>3. /\ Staged(d.fn) \in Staging /\ Distinct(Staged(d.fn).args)
          /\ Staged(d.fn).options \in Seq(Dashed)
      BY <2>2, <2>3, StagedType
    <3>4. d.flag \in Dashed
      BY <2>3, <3>1 DEF Dashed
    <3>5. s \in Staging /\ s.args = Staged(d.fn).args
      <4>1. <<d.flag>> \o Staged(d.fn).options \in Seq(Dashed)
        BY <3>3, <3>4
      <4> QED BY <3>3, <4>1 DEF Staging
    <3> HIDE DEF s, d
    <3> QED BY <1>0, <2>2, <2>3, <3>2, <3>3, <3>5, Stages DEF JobInv
  <2> QED BY <1>1, <2>4
<1>4. CASE StageConfirm
  <2>1. At("confirm") /\ Goes([job EXCEPT !.staged[d.fn].confirm = d.asks])
    BY <1>4 DEF StageConfirm
  <2>2. ImportOK /\ job.todo # <<>> /\ d.do = "confirm"
    BY <2>1, AtItem
  <2>3. d.fn \in Functions /\ d.asks \in BOOLEAN
    BY <2>2, NextItem
  <2> DEFINE s == [Staged(d.fn) EXCEPT !.confirm = d.asks]
  <2>4. Goes([job EXCEPT !.staged[d.fn] = s])
    BY <2>1 DEF Staged
  <2>5. Staged(d.fn) \in Staging /\ Distinct(Staged(d.fn).args)
    BY <2>2, <2>3, StagedType
  <2>6. s \in Staging /\ s.args = Staged(d.fn).args
    <3> HIDE DEF d
    <3> QED BY <2>3, <2>5 DEF Staging
  <2> HIDE DEF s, d
  <2> QED BY <1>0, <2>2, <2>3, <2>4, <2>5, <2>6, Stages DEF JobInv
<1>5. CASE StageDryRun
  <2>1. At("dry_run") /\ Goes([job EXCEPT !.staged[d.fn].dry = TRUE])
    BY <1>5 DEF StageDryRun
  <2>2. ImportOK /\ job.todo # <<>> /\ d.do = "dry_run"
    BY <2>1, AtItem
  <2>3. d.fn \in Functions
    BY <2>2, NextItem
  <2> DEFINE s == [Staged(d.fn) EXCEPT !.dry = TRUE]
  <2>4. Goes([job EXCEPT !.staged[d.fn] = s])
    BY <2>1 DEF Staged
  <2>5. Staged(d.fn) \in Staging /\ Distinct(Staged(d.fn).args)
    BY <2>2, <2>3, StagedType
  <2>6. s \in Staging /\ s.args = Staged(d.fn).args
    BY <2>5 DEF Staging
  <2> HIDE DEF s, d
  <2> QED BY <1>0, <2>2, <2>3, <2>4, <2>5, <2>6, Stages DEF JobInv
<1>6. CASE ContextFactory
  <2>1. At("context_factory") /\ Goes(job)
    BY <1>6 DEF ContextFactory, NextLine
  <2>2. ImportOK /\ job.todo # <<>>
    BY <2>1, AtItem
  <2>3. /\ job \in Imports /\ job.staged \in [Functions -> Staging] /\ job.todo \in Seq(Items)
        /\ \A f \in Functions : Distinct(job.staged[f].args)
    BY <2>2 DEF ImportOK, Imports
  <2>4. <<>> \in Seq(Items) /\ \A i \in 1 .. Len(<<>>) : ItemOK(<<>>[i], Names(job.reg)')
    OBVIOUS
  <2>5. job' = [job EXCEPT !.staged = job.staged, !.todo = <<>> \o Tail(job.todo)]
    <3>1. <<>> \o Tail(job.todo) = Tail(job.todo)
      BY <2>2, <2>3
    <3> QED BY <2>1, <2>3, <3>1 DEF Goes, Imports
  <2> QED BY <1>0, <2>2, <2>3, <2>4, <2>5, GoesOn DEF JobInv
<1>7. CASE Raise
  BY <1>1, <1>7 DEF Raise
<1>8. QED
  BY <1>2, <1>3, <1>4, <1>5, <1>6, <1>7

-----------------------------------------------------------------------------
(* The entry that a registration makes.                                    *)

LEMMA ParameterType ==
    ASSUME NEW fn \in Functions
    PROVE  /\ Params[fn] \in Seq(FunctionParameter)
           /\ \A i, j \in DOMAIN Params[fn] : Params[fn][i].name = Params[fn][j].name => i = j
<1>1. Params[fn] \in Seq(FunctionParameter)
  BY RegistryAssumption
<1>2. IsInjective([i \in DOMAIN Params[fn] |-> Params[fn][i].name])
  BY RegistryAssumption
<1>3. QED
  BY <1>1, <1>2 DEF IsInjective

LEMMA DeclaredType ==
    ASSUME NEW fn, NEW a \in Declaration
    PROVE  LET x == DeclaredArgument(fn, a) IN
           x \in ArgumentRecord /\ x.name = a.name /\ (x.kind = "bool" => ~x.required)
  BY DEF DeclaredArgument, Argument, Required, ArgumentRecord, Declaration, Labels

LEMMA InferredType ==
    ASSUME NEW p \in FunctionParameter
    PROVE  LET x == InferredArgument(p) IN
           x \in ArgumentRecord /\ x.name = p.name /\ (x.kind = "bool" => ~x.required)
  BY DEF InferredArgument, Argument, Required, ArgumentRecord, FunctionParameter, Labels

LEMMA Concatenated ==
    ASSUME NEW S, NEW s \in Seq(S), NEW t \in Seq(S)
    PROVE  /\ s \o t \in Seq(S) /\ DOMAIN (s \o t) = 1 .. Len(s) + Len(t)
           /\ \A i \in 1 .. Len(s) : (s \o t)[i] = s[i]
           /\ \A i \in Len(s) + 1 .. Len(s) + Len(t) :
                 (s \o t)[i] = t[i - Len(s)] /\ i - Len(s) \in 1 .. Len(t)
  OBVIOUS

LEMMA BuiltArguments ==
    ASSUME NEW fn \in Functions, NEW args \in Seq(Declaration), Distinct(args)
    PROVE  ArgumentsOK(BuildArguments(fn, args))
<1> DEFINE rest == Undeclared(fn, args)
           m == Cardinality(rest)
           parameter(i) == Params[fn][Nth(rest, i)]
           A == [i \in DOMAIN args |-> DeclaredArgument(fn, args[i])]
           B == [i \in 1 .. m |-> InferredArgument(parameter(i))]
<1>1. /\ Params[fn] \in Seq(FunctionParameter) /\ Len(Params[fn]) \in Nat
      /\ DOMAIN Params[fn] = 1 .. Len(Params[fn])
      /\ \A i, j \in DOMAIN Params[fn] : Params[fn][i].name = Params[fn][j].name => i = j
  BY ParameterType
<1>2. rest \subseteq 1 .. Len(Params[fn])
  BY <1>1 DEF Undeclared
<1>3. \A k \in rest : \A i \in DOMAIN args : args[i].name # Params[fn][k].name
  BY DEF Undeclared
<1> HIDE DEF rest
<1>4. m \in Nat
  <2>1. IsFiniteSet(1 .. Len(Params[fn]))
    BY <1>1, FS_Interval
  <2> QED BY <2>1, <1>2, FS_Subset, FS_CardinalityType
<1>5. ASSUME NEW i \in 1 .. m
      PROVE  Nth(rest, i) \in rest /\ Cardinality({j \in rest : j <= Nth(rest, i)}) = i
  BY <1>1, <1>2, NthExists
<1>6. \A i \in 1 .. m : parameter(i) \in FunctionParameter
  <2>1. \A k \in 1 .. Len(Params[fn]) : Params[fn][k] \in FunctionParameter
    BY <1>1
  <2>2. \A i \in 1 .. m : Nth(rest, i) \in 1 .. Len(Params[fn])
    BY <1>2, <1>5
  <2> QED BY <2>1, <2>2
<1>7. ASSUME NEW i \in 1 .. m, NEW j \in 1 .. m, parameter(i).name = parameter(j).name
      PROVE  i = j
  <2>1. Nth(rest, i) \in DOMAIN Params[fn] /\ Nth(rest, j) \in DOMAIN Params[fn]
    BY <1>1, <1>2, <1>5
  <2>2. Nth(rest, i) = Nth(rest, j)
    BY <1>1, <1>7, <2>1
  <2> QED BY <1>5, <2>2
<1>8. /\ A \in Seq(ArgumentRecord) /\ DOMAIN args = 1 .. Len(args) /\ Len(args) \in Nat
      /\ Len(A) = Len(args) /\ DOMAIN A = 1 .. Len(args)
      /\ \A i \in 1 .. Len(args) :
            A[i].name = args[i].name /\ (A[i].kind = "bool" => ~A[i].required)
  <2>1. \A i \in 1 .. Len(args) : args[i] \in Declaration
    OBVIOUS
  <2>2. \A i \in 1 .. Len(args) :
           LET x == DeclaredArgument(fn, args[i]) IN
           x \in ArgumentRecord /\ x.name = args[i].name /\ (x.kind = "bool" => ~x.required)
    BY <2>1, DeclaredType
  <2> QED BY <2>2
<1>9. /\ B \in Seq(ArgumentRecord) /\ Len(B) = m /\ DOMAIN B = 1 .. m
      /\ \A i \in 1 .. m :
            B[i].name = parameter(i).name /\ (B[i].kind = "bool" => ~B[i].required)
  <2>1. \A i \in 1 .. m :
           LET x == InferredArgument(parameter(i)) IN
           x \in ArgumentRecord /\ x.name = parameter(i).name /\ (x.kind = "bool" => ~x.required)
    BY <1>6, InferredType
  <2> HIDE DEF parameter, m
  <2> QED BY <2>1, <1>4
<1>10. \A i \in 1 .. Len(args), j \in 1 .. m : A[i].name # B[j].name
  BY <1>3, <1>5, <1>8, <1>9
<1>11. \A i, j \in 1 .. m : B[i].name = B[j].name => i = j
  BY <1>7, <1>9
<1>12. \A i, j \in 1 .. Len(args) : A[i].name = A[j].name => i = j
  BY <1>8 DEF Distinct
<1> DEFINE C == A \o B
<1> HIDE DEF A, B, m, parameter
<1>13. C \in Seq(ArgumentRecord) /\ DOMAIN C = 1 .. Len(args) + m
  BY <1>8, <1>9, Concatenated
<1>14. /\ \A i \in 1 .. Len(args) : C[i] = A[i]
       /\ \A i \in Len(args) + 1 .. Len(args) + m : C[i] = B[i - Len(args)] /\ i - Len(args) \in 1 .. m
  BY <1>8, <1>9, Concatenated
<1>15. \A i \in 1 .. Len(args) + m :
          i \in 1 .. Len(args) \/ i \in Len(args) + 1 .. Len(args) + m
  BY <1>4, <1>8
<1> HIDE DEF C
<1>16. ASSUME NEW i \in DOMAIN C, NEW j \in DOMAIN C, C[i].name = C[j].name PROVE i = j
  <2>1. CASE i \in 1 .. Len(args) /\ j \in 1 .. Len(args)
    BY <2>1, <1>12, <1>14, <1>16
  <2>2. CASE i \in Len(args) + 1 .. Len(args) + m /\ j \in Len(args) + 1 .. Len(args) + m
    <3>1. i - Len(args) = j - Len(args)
      BY <2>2, <1>11, <1>14, <1>16
    <3> QED BY <3>1, <2>2, <1>4, <1>8
  <2>3. ASSUME NEW x \in 1 .. Len(args), NEW y \in Len(args) + 1 .. Len(args) + m
        PROVE  C[x].name # C[y].name
    BY <1>10, <1>14
  <2> QED BY <2>1, <2>2, <2>3, <1>13, <1>15, <1>16
<1>17. ASSUME NEW i \in DOMAIN C, C[i].kind = "bool" PROVE ~C[i].required
  BY <1>8, <1>9, <1>13, <1>14, <1>15, <1>17
<1>18. QED
  BY <1>13, <1>16, <1>17 DEF ArgumentsOK, Distinct, BuildArguments, A, B, C, m, parameter, rest

LEMMA DryRunArguments ==
    ASSUME NEW args, ArgumentsOK(args)
    PROVE  ArgumentsOK(WithDryRun(args))
<1> DEFINE dry == Argument("dry_run", "bool", FALSE, FALSE, FALSE)
           at == {i \in DOMAIN args : args[i].name = "dry_run"}
<1>1. dry \in ArgumentRecord /\ dry.name = "dry_run" /\ dry.kind = "bool" /\ ~dry.required
  <2>1. dry = [name |-> "dry_run", kind |-> "bool", required |-> FALSE, prompt |-> FALSE,
               again |-> FALSE]
    BY DEF Argument
  <2>2. "bool" \in Kinds
    BY DEF Kinds
  <2>3. "dry_run" \in Labels
    BY DEF Labels
  <2> HIDE DEF dry
  <2> QED BY <2>1, <2>2, <2>3 DEF ArgumentRecord
<1>2. args \in Seq(ArgumentRecord) /\ Distinct(args)
  BY DEF ArgumentsOK
<1> HIDE DEF dry
<1>3. CASE at = {}
  <2> DEFINE b == Append(args, dry)
  <2>1. /\ b \in Seq(ArgumentRecord) /\ DOMAIN b = 1 .. Len(args) + 1 /\ b[Len(args) + 1] = dry
        /\ DOMAIN args = 1 .. Len(args) /\ Len(args) \in Nat
        /\ \A i \in 1 .. Len(args) : b[i] = args[i]
    BY <1>1, <1>2
  <2>2. \A i \in 1 .. Len(args) : args[i].name # "dry_run"
    BY <1>3, <2>1
  <2>3. WithDryRun(args) = b
    BY <1>3 DEF WithDryRun, dry
  <2> HIDE DEF b
  <2>4. \A i, j \in DOMAIN b : b[i].name = b[j].name => i = j
    BY <1>1, <1>2, <2>1, <2>2 DEF Distinct
  <2>5. \A i \in DOMAIN b : b[i].kind = "bool" => ~b[i].required
    BY <1>1, <2>1 DEF ArgumentsOK
  <2> QED BY <2>1, <2>3, <2>4, <2>5 DEF ArgumentsOK, Distinct
<1>4. CASE at # {}
  <2> DEFINE b == [i \in DOMAIN args |-> IF i \in at THEN dry ELSE args[i]]
  <2>1. /\ b \in Seq(ArgumentRecord) /\ DOMAIN b = DOMAIN args
        /\ \A i \in DOMAIN args : b[i] = IF i \in at THEN dry ELSE args[i]
    BY <1>1, <1>2
  <2>2. WithDryRun(args) = b
    BY <1>4 DEF WithDryRun, dry
  <2> HIDE DEF b
  <2>3. \A i \in DOMAIN b : b[i].name = args[i].name
    BY <1>1, <2>1
  <2>4. \A i \in DOMAIN b : b[i].kind = "bool" => ~b[i].required
    BY <1>1, <2>1 DEF ArgumentsOK
  <2> QED BY <1>2, <2>1, <2>2, <2>3, <2>4 DEF ArgumentsOK, Distinct
<1>5. QED
  BY <1>3, <1>4

LEMMA EntrySound ==
    ASSUME ImportOK, NEW fn \in Functions, NEW name \in Paths
    PROVE  LET e == Entry(name, fn) IN
           EntryOK(e) /\ e.name = name /\ e.options = Staged(fn).options
<1>1. Staged(fn) \in Staging /\ Distinct(Staged(fn).args) /\ Staged(fn).args \in Seq(Declaration)
  BY StagedType
<1> DEFINE built == BuildArguments(fn, Staged(fn).args)
           e == Entry(name, fn)
<1>2. ArgumentsOK(built) /\ ArgumentsOK(WithDryRun(built))
  BY <1>1, BuiltArguments, DryRunArguments
<1>3. /\ e.name = name /\ e.fn = fn /\ e.options = Staged(fn).options
      /\ e.confirm = Staged(fn).confirm /\ e.arguments \in {built, WithDryRun(built)}
      /\ e = [name |-> e.name, fn |-> e.fn, options |-> e.options, confirm |-> e.confirm,
              arguments |-> e.arguments]
  BY DEF Entry
<1> HIDE DEF e, built
<1>4. ArgumentsOK(e.arguments)
  BY <1>2, <1>3
<1>5. e.arguments \in Seq(ArgumentRecord)
  BY <1>4 DEF ArgumentsOK
<1>6. Staged(fn).options \in Seq(Dashed) /\ Staged(fn).confirm \in BOOLEAN
  BY <1>1 DEF Staging
<1>7. e \in Entries
  BY <1>3, <1>5, <1>6 DEF Entries
<1>8. QED
  BY <1>3, <1>4, <1>7 DEF EntryOK, e

-----------------------------------------------------------------------------
(* Registrations.                                                          *)

LEMMA DerivedName ==
    ASSUME NEW options \in Seq(Dashed), NEW fn \in Functions
    PROVE  DeriveCommandName(options, fn) \in Paths
<1> DEFINE long == {i \in DOMAIN options : options[i].dash = 2}
           first == CHOOSE i \in long : \A j \in long : i <= j
           base == IF long = {} THEN fn ELSE options[first].base
<1>1. base \in STRING
  <2>1. CASE long = {}
    BY <2>1, RegistryAssumption
  <2>2. CASE long # {}
    <3>1. \A i \in long : i \in Nat /\ options[i] \in Word
      BY DEF Dashed
    <3>2. \E i \in long : \A j \in long : i <= j
      <4> HIDE DEF long
      <4> QED BY <2>2, <3>1, LeastExists
    <3>3. first \in long
      BY <3>2
    <3> QED BY <2>2, <3>1, <3>3 DEF Word
  <2> QED BY <2>1, <2>2
<1> HIDE DEF base
<1>2. Plain(base) \in Word /\ Plain(base).dash = 0
  BY <1>1 DEF Plain, Word
<1>3. <<Plain(base)>> \in Paths
  BY <1>2 DEF Paths
<1>4. QED
  BY <1>3 DEF DeriveCommandName, base

LEMMA JoinedName ==
    ASSUME NEW path \in Paths, NEW words \in Seq(Word)
    PROVE  /\ path \o words \in Paths /\ (words # <<>> => Len(path \o words) # 1)
           /\ path \in Keys => path \o words \in Keys
<1>1. path \in Seq(Word) /\ path # <<>>
  BY DEF Paths
<1>2. path \o words \in Seq(Word) /\ path \o words # <<>> /\ (path \o words)[1] = path[1]
  BY <1>1
<1>3. words # <<>> => Len(path \o words) # 1
  BY <1>1
<1>4. QED
  BY <1>2, <1>3 DEF Keys, Paths

LEMMA NothingStaged == Nothing \in Staging /\ Distinct(Nothing.args)
<1>1. <<>> \in Seq(Declaration) /\ <<>> \in Seq(Dashed) /\ DOMAIN <<>> = {}
  OBVIOUS
<1>2. QED
  BY <1>1 DEF Nothing, Staging, Distinct

LEMMA FailedJob ==
    ASSUME Fail
    PROVE  JobInv'
  BY DEF Fail, JobInv

\* The tables of the registry in use, after a command was stored.
LEMMA StoresOne ==
    ASSUME TablesInv, NEW r \in Registries, NEW e, EntryOK(e), SlotFree(r, e.name),
           Store(r, e), NEW K, Point(r, K, e.name) \/ (K = {} /\ aliases' = aliases),
           \A k \in K : k \in Keys /\ KeyFree(r, e.name, k) /\ (k \in Names(r) => k = e.name),
           Len(e.name) = 1 => OptionKeys(e.options) \subseteq K
    PROVE  /\ TablesInv' /\ Stable /\ Grown
           /\ \A q \in Registries : Names(q) \subseteq Names(q)'
           /\ e.name \in Names(r)'
<1> DEFINE c == commands[r]
           l == aliases[r]
           m == aliases'[r]
<1>1. /\ DOMAIN commands = Registries /\ DOMAIN aliases = Registries /\ Sound(c, l)
  BY DEF TablesInv
<1>2. /\ DOMAIN commands' = Registries /\ commands'[r] = With(c, {e.name}, e)
      /\ \A q \in Registries \ {r} : commands'[q] = commands[q]
  BY <1>1 DEF Store
<1>3. /\ DOMAIN aliases' = Registries /\ \A q \in Registries \ {r} : aliases'[q] = aliases[q]
      /\ Extends(m, l, K, e.name)
  BY <1>1, WithExtends DEF Point
<1>4. e.name \notin DOMAIN c \cup DOMAIN l
  BY DEF SlotFree, Names, Aliases
<1>5. \A k \in K : /\ k \in Keys
                   /\ k \in DOMAIN l => l[k] = e.name
                   /\ k \in DOMAIN c => k = e.name
  BY DEF KeyFree, Names, Aliases
<1>6. Len(e.name) = 1 => \A i \in DOMAIN e.options : Normal(<<e.options[i]>>) \in K
  BY DEF OptionKeys
<1> HIDE DEF c, l, m
<1>7. Sound(With(c, {e.name}, e), m) /\ Keeps(c, l, With(c, {e.name}, e), m)
  BY <1>1, <1>3, <1>4, <1>5, <1>6, AddCommand
<1>8. TablesInv' /\ Stable
  BY <1>2, <1>3, <1>7, OneRegistry DEF c, l, m
<1>9. /\ DOMAIN With(c, {e.name}, e) = DOMAIN c \cup {e.name}
      /\ \A n \in DOMAIN c : With(c, {e.name}, e)[n] = c[n]
  BY <1>4 DEF With
<1>10. \A a \in DOMAIN l : a \in DOMAIN m /\ m[a] = l[a]
  BY <1>3, <1>5 DEF Extends
<1>11. Grown
  BY <1>2, <1>3, <1>9, <1>10 DEF Grown, Names, Aliases, c, l, m
<1>12. QED
  BY <1>2, <1>8, <1>9, <1>11 DEF Names, c

LEMMA RegisterStep ==
    ASSUME TablesInv, JobInv, Register
    PROVE  TablesInv' /\ Stable /\ Grown /\ JobInv'
<1> DEFINE d == Head(job.todo)
           options == Staged(d.fn).options
           name == IF d.name # <<>> THEN d.name ELSE DeriveCommandName(options, d.fn)
           e == Entry(name, d.fn)
<1>1. ImportOK /\ job.todo # <<>> /\ d.do = "register"
  BY AtItem DEF Register
<1>2. d.fn \in Functions /\ d.name \in Seq(Word) /\ job.reg \in Registries
  BY <1>1, NextItem
<1>3. options \in Seq(Dashed)
  BY <1>1, <1>2, StagedType
<1>4. name \in Paths
  BY <1>2, <1>3, DerivedName DEF Paths
<1>5. CASE Fail /\ UNCHANGED <<commands, aliases>>
  BY <1>5, SameTables, FailedJob
<1>6. CASE ~(Fail /\ UNCHANGED <<commands, aliases>>)
  <2>1. /\ SlotFree(job.reg, name) /\ OptionsFree(job.reg, name, options)
        /\ Goes(Taken(d.fn)) /\ Store(job.reg, e) /\ Point(job.reg, OptionKeys(options), name)
    BY <1>6 DEF Register, InUse
  <2>2. EntryOK(e) /\ e.name = name /\ e.options = options
    BY <1>1, <1>2, <1>4, EntrySound
  <2>3. ASSUME NEW k \in OptionKeys(options)
        PROVE  k \in Keys /\ KeyFree(job.reg, name, k) /\ (k \in Names(job.reg) => k = name)
    <3>1. PICK i \in DOMAIN options : k = Normal(<<options[i]>>)
      BY DEF OptionKeys
    <3>2. options[i] \in Word
      BY <1>3 DEF Dashed
    <3>3. k \in Keys
      BY <3>1, <3>2, NormalWord
    <3> QED BY <2>1, <3>1, <3>3 DEF OptionsFree
  <2> HIDE DEF e, name, options, d
  <2>4. /\ TablesInv' /\ Stable /\ Grown
        /\ \A q \in Registries : Names(q) \subseteq Names(q)'
    BY <1>2, <2>1, <2>2, <2>3, StoresOne
  <2>5. Goes([job EXCEPT !.staged[d.fn] = Nothing])
    BY <2>1 DEF Taken
  <2>6. ImportOK'
    BY <1>1, <1>2, <2>4, <2>5, NothingStaged, Stages
  <2> QED BY <2>4, <2>6 DEF JobInv
<1>7. QED
  BY <1>5, <1>6

\* The alias paths a group leaves for a command: each of paths, with word at its end.
Ending(target, paths, word) ==
    [do |-> "alias", target |-> target, paths |-> [i \in DOMAIN paths |-> paths[i] \o word]]

LEMMA AliasItem ==
    ASSUME NEW target \in Paths, NEW paths \in Seq(Paths), paths # <<>>, NEW word \in Seq(Word),
           NEW names, target \in names, PlainGroups => paths \in Seq(Keys)
    PROVE  Ending(target, paths, word) \in Items /\ ItemOK(Ending(target, paths, word), names)
<1> DEFINE ended == [i \in DOMAIN paths |-> paths[i] \o word]
           item == [do |-> "alias", target |-> target, paths |-> ended]
<1>1. DOMAIN paths = 1 .. Len(paths) /\ Len(paths) \in Nat \ {0}
  OBVIOUS
<1>2. \A i \in DOMAIN paths : paths[i] \o word \in Paths
  BY JoinedName
<1>3. ended \in Seq(Paths) /\ Len(ended) = Len(paths)
  BY <1>1, <1>2
<1>4. ended # <<>>
  BY <1>1, <1>3
<1>5. PlainGroups => ended \in Seq(Keys)
  <2>1. SUFFICES ASSUME PlainGroups PROVE ended \in Seq(Keys)
    OBVIOUS
  <2>2. \A i \in DOMAIN paths : paths[i] \o word \in Keys
    BY <2>1, JoinedName
  <2> QED BY <1>1, <2>2
<1> HIDE DEF ended
<1>6. item \in Items
  BY <1>3 DEF Items
<1>7. PlainGroups => Straight(item)
  BY <1>5 DEF Straight
<1>8. QED
  BY <1>4, <1>6, <1>7 DEF ItemOK, Ending, ended

LEMMA GroupRegisterStep ==
    ASSUME TablesInv, JobInv, GroupRegister
    PROVE  TablesInv' /\ Stable /\ Grown /\ JobInv'
<1> DEFINE d == Head(job.todo)
           options == Staged(d.fn).options
           leaf == IF d.name # <<>> THEN d.name ELSE DeriveCommandName(options, d.fn)
           name == d.path \o leaf
           e == Entry(name, d.fn)
           front == IF d.alias_paths = <<>> THEN <<>> ELSE <<Ending(name, d.alias_paths, leaf)>>
           flags == [k \in DOMAIN options |->
                        Ending(name, <<d.path>> \o d.alias_paths, <<options[k]>>)]
           later == front \o flags
           staged == [job.staged EXCEPT ![d.fn] = Nothing]
<1>1. ImportOK /\ job.todo # <<>> /\ d.do = "group_register"
  BY AtItem DEF GroupRegister
<1>2. /\ d.fn \in Functions /\ d.path \in Paths /\ d.alias_paths \in Seq(Paths)
      /\ d.name \in Seq(Word) /\ job.reg \in Registries
  BY <1>1, NextItem
<1>3. options \in Seq(Dashed)
  BY <1>1, <1>2, StagedType
<1>4. leaf \in Paths /\ leaf \in Seq(Word) /\ leaf # <<>>
  BY <1>2, <1>3, DerivedName DEF Paths
<1>5. /\ name \in Paths /\ Len(name) # 1
      /\ PlainGroups => d.path \in Keys /\ d.alias_paths \in Seq(Keys)
  <2>1. ItemOK(d, Names(job.reg))
    BY <1>1, NextItem
  <2> HIDE DEF d
  <2>2. PlainGroups => d.path \in Keys /\ d.alias_paths \in Seq(Keys)
    BY <1>1, <2>1 DEF ItemOK, Straight
  <2> QED BY <1>2, <1>4, <2>2, JoinedName
<1>6. CASE Fail /\ UNCHANGED <<commands, aliases>>
  BY <1>6, SameTables, FailedJob
<1>7. CASE ~(Fail /\ UNCHANGED <<commands, aliases>>)
  <2>1. /\ SlotFree(job.reg, name) /\ Store(job.reg, e) /\ aliases' = aliases
        /\ job' = [Taken(d.fn) EXCEPT !.todo = later \o Tail(@)]
    BY <1>7 DEF GroupRegister, InUse, Ending
  <2>2. EntryOK(e) /\ e.name = name
    BY <1>1, <1>2, <1>5, EntrySound
  <2>3. /\ TablesInv' /\ Stable /\ Grown
        /\ \A q \in Registries : Names(q) \subseteq Names(q)'
        /\ name \in Names(job.reg)'
    <3>1. job'.reg = job.reg
      BY <1>1, <2>1 DEF Taken, ImportOK, Imports
    <3> DEFINE K == {}
               r == job.reg
    <3>2. \/ Point(r, K, e.name)
          \/ K = {} /\ aliases' = aliases
      BY <2>1
    <3>3. /\ \A k \in K : k \in Keys /\ KeyFree(r, e.name, k) /\ (k \in Names(r) => k = e.name)
          /\ Len(e.name) = 1 => OptionKeys(e.options) \subseteq K
      BY <1>5, <2>2
    <3>4. r \in Registries /\ SlotFree(r, e.name) /\ Store(r, e) /\ EntryOK(e)
      BY <1>2, <2>1, <2>2
    <3> HIDE DEF e, name, later, K, r
    <3>5. /\ TablesInv' /\ Stable /\ Grown
          /\ \A q \in Registries : Names(q) \subseteq Names(q)'
          /\ e.name \in DOMAIN commands'[r]
      BY <3>4, <3>2, <3>3, StoresOne DEF Names
    <3> QED BY <2>2, <3>1, <3>5 DEF Names, r
  <2> DEFINE names == Names(job.reg)'
  <2>4. front \in Seq(Items) /\ \A i \in 1 .. Len(front) : ItemOK(front[i], names)
    <3>1. CASE d.alias_paths = <<>>
      BY <3>1
    <3>2. CASE d.alias_paths # <<>>
      <4> DEFINE item == Ending(name, d.alias_paths, leaf)
      <4>1. item \in Items /\ ItemOK(item, names)
        <5> HIDE DEF names, leaf, name, d
        <5> QED BY <1>2, <1>4, <1>5, <2>3, <3>2, AliasItem DEF names
      <4>2. front = <<item>>
        BY <3>2
      <4> HIDE DEF item, front
      <4> QED BY <4>1, <4>2
    <3> QED BY <3>1, <3>2
  <2>5. flags \in Seq(Items) /\ \A i \in 1 .. Len(flags) : ItemOK(flags[i], names)
    <3> DEFINE paths == <<d.path>> \o d.alias_paths
    <3>1. paths \in Seq(Paths) /\ paths # <<>> /\ (PlainGroups => paths \in Seq(Keys))
      <4> HIDE DEF d
      <4>1. PlainGroups => <<d.path>> \in Seq(Keys) /\ d.alias_paths \in Seq(Keys)
        BY <1>5
      <4> QED BY <1>2, <4>1
    <3>2. ASSUME NEW k \in DOMAIN options
          PROVE  LET item == Ending(name, paths, <<options[k]>>) IN
                 item \in Items /\ ItemOK(item, names)
      <4>1. <<options[k]>> \in Seq(Word)
        BY <1>3 DEF Dashed
      <4> HIDE DEF names, leaf, name, d, paths, options
      <4> QED BY <1>5, <2>3, <3>1, <4>1, AliasItem DEF names
    <3>3. /\ DOMAIN options = 1 .. Len(options) /\ Len(options) \in Nat
          /\ flags = [k \in 1 .. Len(options) |-> flags[k]]
          /\ \A k \in DOMAIN options : flags[k] = Ending(name, paths, <<options[k]>>)
      BY <1>3
    <3>4. \A k \in 1 .. Len(options) : flags[k] \in Items /\ ItemOK(flags[k], names)
      <4> HIDE DEF flags, options, names, paths, name
      <4> QED BY <3>2, <3>3
    <3> HIDE DEF flags, options, names, paths
    <3> QED BY <3>3, <3>4
  <2>6. later \in Seq(Items) /\ \A i \in 1 .. Len(later) : ItemOK(later[i], names)
    <3> HIDE DEF front, flags, names
    <3>1. /\ later \in Seq(Items)
          /\ \A i \in 1 .. Len(front) : later[i] = front[i]
          /\ \A i \in Len(front) + 1 .. Len(front) + Len(flags) :
                later[i] = flags[i - Len(front)] /\ i - Len(front) \in 1 .. Len(flags)
          /\ Len(later) = Len(front) + Len(flags)
      BY <2>4, <2>5
    <3>2. \A i \in 1 .. Len(later) :
             i \in 1 .. Len(front) \/ i \in Len(front) + 1 .. Len(front) + Len(flags)
      BY <2>4, <2>5, <3>1
    <3> HIDE DEF later
    <3> QED BY <2>4, <2>5, <3>1, <3>2
  <2>7. /\ job \in Imports /\ job.staged \in [Functions -> Staging] /\ job.todo \in Seq(Items)
        /\ \A fn \in Functions : Distinct(job.staged[fn].args)
    BY <1>1 DEF ImportOK, Imports
  <2>8. staged \in [Functions -> Staging] /\ \A fn \in Functions : Distinct(staged[fn].args)
    BY <2>7, NothingStaged
  <2>9. job' = [job EXCEPT !.staged = staged, !.todo = later \o Tail(job.todo)]
    <3> HIDE DEF later, d
    <3> QED BY <2>1, <2>7 DEF Taken, Imports
  <2> HIDE DEF staged, later, names, d
  <2>10. ImportOK'
    BY <1>1, <2>3, <2>6, <2>8, <2>9, GoesOn DEF names
  <2> QED BY <2>3, <2>10 DEF JobInv
<1>8. QED
  BY <1>6, <1>7

\* The tables of registry r, after keys were pointed to a command.
LEMMA PointsSome ==
    ASSUME TablesInv, NEW r \in Registries, NEW n \in Names(r), NEW K, Point(r, K, n),
           commands' = commands,
           \A k \in K : /\ k \in Keys
                        /\ k \in Aliases(r) => aliases[r][k] = n
                        /\ PlainGroups => (k \in Names(r) => k = n)
    PROVE  TablesInv' /\ Stable /\ Grown /\ \A q \in Registries : Names(q) \subseteq Names(q)'
<1> DEFINE c == commands[r]
           l == aliases[r]
           m == aliases'[r]
<1>1. /\ DOMAIN commands = Registries /\ DOMAIN aliases = Registries /\ Sound(c, l)
  BY DEF TablesInv
<1>2. /\ DOMAIN commands' = Registries /\ commands'[r] = c
      /\ \A q \in Registries \ {r} : commands'[q] = commands[q]
  BY <1>1
<1>3. /\ DOMAIN aliases' = Registries /\ \A q \in Registries \ {r} : aliases'[q] = aliases[q]
      /\ Extends(m, l, K, n)
  BY <1>1, WithExtends DEF Point
<1>4. /\ n \in DOMAIN c
      /\ \A k \in K : /\ k \in Keys
                      /\ k \in DOMAIN l => l[k] = n
                      /\ PlainGroups => (k \in DOMAIN c => k = n)
  BY DEF Names, Aliases
<1> HIDE DEF c, l, m
<1>5. Sound(c, m) /\ Keeps(c, l, c, m)
  BY <1>1, <1>3, <1>4, AddAliases
<1>6. TablesInv' /\ Stable
  BY <1>2, <1>3, <1>5, OneRegistry DEF c, l, m
<1>7. \A a \in DOMAIN l : a \in DOMAIN m /\ m[a] = l[a]
  BY <1>3, <1>4 DEF Extends
<1>8. Grown
  BY <1>2, <1>3, <1>7 DEF Grown, Names, Aliases, c, l, m
<1>9. QED
  BY <1>6, <1>8 DEF Names

LEMMA RegisterAliasPathStep ==
    ASSUME TablesInv, JobInv, RegisterAliasPath
    PROVE  TablesInv' /\ Stable /\ Grown /\ JobInv'
<1> DEFINE d == Head(job.todo)
           path == Head(d.paths)
           rest == [d EXCEPT !.paths = Tail(@)]
           later == IF Tail(d.paths) = <<>> THEN <<>> ELSE <<rest>>
           r == job.reg
<1>1. ImportOK /\ job.todo # <<>> /\ d.do = "alias"
  BY AtItem DEF RegisterAliasPath
<1>2. /\ d \in Items /\ ItemOK(d, Names(r)) /\ d.paths \in Seq(Paths) /\ r \in Registries
      /\ d.target \in Paths
  BY <1>1, NextItem
<1>3. d.target \in Names(r) /\ d.paths # <<>>
  BY <1>1, <1>2 DEF ItemOK
<1>4. path \in Paths /\ Tail(d.paths) \in Seq(Paths)
  <2> HIDE DEF d
  <2> QED BY <1>2, <1>3
<1>5. CASE Fail /\ UNCHANGED <<commands, aliases>>
  BY <1>5, SameTables, FailedJob
<1>6. CASE ~(Fail /\ UNCHANGED <<commands, aliases>>)
  <2>1. /\ PathFree(r, d.target, path) /\ Point(r, {Normal(path)}, d.target)
        /\ commands' = commands /\ job' = [job EXCEPT !.todo = later \o Tail(@)]
    BY <1>6 DEF RegisterAliasPath, InUse
  <2>2. Normal(path) \in Keys /\ (PlainGroups => Normal(path) = path)
    <3>1. Normal(path) \in Keys
      BY <1>4, NormalIsKey
    <3>2. PlainGroups => path \in Keys
      <4> HIDE DEF d
      <4>1. PlainGroups => d.paths \in Seq(Keys)
        BY <1>1, <1>2 DEF ItemOK, Straight
      <4> QED BY <1>3, <4>1
    <3> QED BY <3>1, <3>2, NormalKey
  <2> DEFINE K == {Normal(path)}
  <2>3. \A k \in K : /\ k \in Keys
                     /\ k \in Aliases(r) => aliases[r][k] = d.target
                     /\ PlainGroups => (k \in Names(r) => k = d.target)
    BY <1>4, <2>1, <2>2 DEF PathFree, KeyFree
  <2>4. /\ TablesInv' /\ Stable /\ Grown /\ \A q \in Registries : Names(q) \subseteq Names(q)'
    <3> HIDE DEF K, d, r
    <3> QED BY <1>2, <1>3, <2>1, <2>3, PointsSome DEF K
  <2>5. job'.reg = r /\ Names(job.reg)' = Names(r)
    BY <1>1, <2>1 DEF ImportOK, Imports, Names
  <2>6. later \in Seq(Items) /\ \A i \in 1 .. Len(later) : ItemOK(later[i], Names(job.reg)')
    <3>1. CASE Tail(d.paths) = <<>>
      BY <3>1
    <3>2. CASE Tail(d.paths) # <<>>
      <4>1. d \in [do : {"alias"}, target : Paths, paths : Seq(Paths)]
        <5> HIDE DEF d
        <5> QED BY <1>1, <1>2 DEF Items, Decorators
      <4>2. /\ rest \in [do : {"alias"}, target : Paths, paths : Seq(Paths)]
            /\ rest.target = d.target /\ rest.paths = Tail(d.paths)
        <5> HIDE DEF d
        <5> QED BY <1>4, <4>1
      <4>3. PlainGroups => Straight(rest)
        <5>1. PlainGroups => d.paths \in Seq(Keys)
          BY <1>1, <1>2 DEF ItemOK, Straight
        <5>2. PlainGroups => Tail(d.paths) \in Seq(Keys)
          <6> HIDE DEF d
          <6> QED BY <1>3, <5>1
        <5>3. rest.do = "alias"
          BY <4>2
        <5> HIDE DEF rest, d
        <5> QED BY <4>2, <5>2, <5>3 DEF Straight
      <4>4. rest \in Items /\ ItemOK(rest, Names(job.reg)')
        BY <1>3, <2>5, <3>2, <4>2, <4>3 DEF Items, ItemOK
      <4>5. later = <<rest>>
        BY <3>2
      <4> HIDE DEF later, rest
      <4> QED BY <4>4, <4>5
    <3> QED BY <3>1, <3>2
  <2>7. /\ job \in Imports /\ job.staged \in [Functions -> Staging]
        /\ \A fn \in Functions : Distinct(job.staged[fn].args)
    BY <1>1 DEF ImportOK, Imports
  <2>8. job' = [job EXCEPT !.staged = job.staged, !.todo = later \o Tail(job.todo)]
    <3> HIDE DEF later
    <3> QED BY <2>1, <2>7 DEF Imports
  <2> HIDE DEF later, d, r
  <2>9. ImportOK'
    BY <1>1, <2>4, <2>6, <2>7, <2>8, GoesOn
  <2> QED BY <2>4, <2>9 DEF JobInv
<1>7. QED
  BY <1>5, <1>6

-----------------------------------------------------------------------------
(* Merges, and the beginning and the end of a job.                         *)

LEMMA Merging ==
    ASSUME JobInv, job.kind = "merge"
    PROVE  MergeOK
  BY DEF JobInv, NoJob, ImportOK, Imports

LEMMA MergeCommandStep ==
    ASSUME TablesInv, JobInv, MergeCommand
    PROVE  TablesInv' /\ Stable /\ Grown /\ JobInv'
<1>1. MergeOK
  BY Merging DEF MergeCommand
<1>2. /\ job \in Merges /\ job.reg \in Registries /\ job.from \in Registries
      /\ job.from # job.reg /\ job.names \subseteq Paths
      /\ job.names \subseteq Names(job.from) /\ job.links \subseteq Aliases(job.from)
      /\ job.names # {} => job.links = Aliases(job.from)
  BY <1>1 DEF MergeOK, Merges
<1> DEFINE r == job.reg
           q == job.from
<1>3. CASE Fail /\ UNCHANGED <<commands, aliases>>
  BY <1>3, SameTables, FailedJob
<1>4. CASE ~(Fail /\ UNCHANGED <<commands, aliases>>)
  <2> DEFINE e(n) == commands[q][n]
             keys(n) == IF Len(n) = 1 THEN OptionKeys(e(n).options) ELSE {}
  <2>1. PICK n \in job.names :
           /\ SlotFree(r, n) /\ (Len(n) = 1 => OptionsFree(r, n, e(n).options))
           /\ Store(r, e(n)) /\ Point(r, keys(n), n)
           /\ job' = [job EXCEPT !.names = @ \ {n}]
    BY <1>4 DEF MergeCommand
  <2> DEFINE entry == e(n)
             K == keys(n)
  <2>2. n \in Paths /\ EntryOK(entry) /\ entry.name = n
    BY <1>2 DEF TablesInv, Sound, OwnNames, Names
  <2>3. entry.options \in Seq(Dashed)
    BY <2>2 DEF EntryOK, Entries
  <2>4. ASSUME NEW k \in K
        PROVE  k \in Keys /\ KeyFree(r, n, k) /\ (k \in Names(r) => k = n)
    <3>1. Len(n) = 1 /\ k \in OptionKeys(entry.options)
      OBVIOUS
    <3>2. PICK i \in DOMAIN entry.options : k = Normal(<<entry.options[i]>>)
      BY <3>1 DEF OptionKeys
    <3>3. entry.options[i] \in Word
      BY <2>3 DEF Dashed
    <3>4. k \in Keys
      BY <3>2, <3>3, NormalWord
    <3> QED BY <2>1, <3>1, <3>2, <3>4 DEF OptionsFree
  <2>5. Len(n) = 1 => OptionKeys(entry.options) \subseteq K
    OBVIOUS
  <2>6. SlotFree(r, entry.name) /\ Store(r, entry) /\ Point(r, K, entry.name)
    BY <2>1, <2>2
  <2> HIDE DEF entry, K, r
  <2>7. /\ TablesInv' /\ Stable /\ Grown
        /\ \A p \in Registries : Names(p) \subseteq Names(p)'
    BY <1>2, <2>2, <2>4, <2>5, <2>6, StoresOne DEF r
  <2>8. /\ job' \in Merges /\ job'.from = q /\ job'.reg = r
        /\ job'.names \subseteq job.names /\ job'.links = job.links
    BY <1>2, <2>1 DEF Merges, r
  <2>9. aliases'[q] = aliases[q]
    BY <1>2, <2>6 DEF Point, r, TablesInv
  <2>10. MergeOK'
    BY <1>2, <2>7, <2>8, <2>9 DEF MergeOK, Names, Aliases, r
  <2> QED BY <2>7, <2>10 DEF JobInv
<1>5. QED
  BY <1>3, <1>4

LEMMA MergeAliasStep ==
    ASSUME TablesInv, JobInv, MergeAlias
    PROVE  TablesInv' /\ Stable /\ Grown /\ JobInv'
<1>1. MergeOK
  BY Merging DEF MergeAlias
<1>2. /\ job \in Merges /\ job.reg \in Registries /\ job.from \in Registries
      /\ job.from # job.reg /\ job.links \subseteq Keys
      /\ job.names \subseteq Names(job.from) /\ job.links \subseteq Aliases(job.from)
      /\ job.names # {} => job.links = Aliases(job.from)
  BY <1>1 DEF MergeOK, Merges
<1> DEFINE r == job.reg
           q == job.from
           next(a) == [job EXCEPT !.links = @ \ {a}]
<1>3. commands' = commands /\ job.names = {}
  BY DEF MergeAlias
<1>4. CASE Fail /\ UNCHANGED aliases
  BY <1>3, <1>4, SameTables, FailedJob
<1>5. ASSUME NEW a \in job.links, job' = next(a), aliases'[q] = aliases[q] PROVE JobInv'
  <2>1. /\ job' \in Merges /\ job'.from = q /\ job'.reg = r
        /\ job'.links \subseteq job.links /\ job'.names = job.names
    BY <1>2, <1>5 DEF Merges
  <2> QED BY <1>2, <1>3, <1>5, <2>1 DEF JobInv, MergeOK, Names, Aliases
<1>6. ASSUME NEW a \in job.links, job' = next(a), UNCHANGED aliases
      PROVE  TablesInv' /\ Stable /\ Grown /\ JobInv'
  <2>1. JobInv'
    BY <1>5, <1>6
  <2> QED BY <2>1, <1>3, <1>6, SameTables
<1>7. ASSUME NEW a \in job.links, job' = next(a),
             aliases[q][a] \in Names(r), Point(r, {a}, aliases[q][a]),
             a \in Names(r) => a = aliases[q][a],
             a \in Aliases(r) => aliases[r][a] = aliases[q][a]
      PROVE  TablesInv' /\ Stable /\ Grown /\ JobInv'
  <2>1. aliases'[q] = aliases[q]
    BY <1>2, <1>7 DEF Point, TablesInv
  <2>2. JobInv'
    BY <1>5, <1>7, <2>1
  <2> DEFINE K == {a}
             n == aliases[q][a]
  <2>3. \A k \in K : /\ k \in Keys
                     /\ k \in Aliases(r) => aliases[r][k] = n
                     /\ k \in Names(r) => k = n
    BY <1>2, <1>7
  <2>4. n \in Names(r) /\ Point(r, K, n)
    BY <1>7
  <2> HIDE DEF K, n, r
  <2>5. TablesInv' /\ Stable /\ Grown
    BY <1>2, <1>3, <2>3, <2>4, PointsSome DEF r
  <2> QED BY <2>2, <2>5
<1>8. CASE ~(Fail /\ UNCHANGED aliases)
  <2>1. PICK a \in job.links :
           \/ job' = next(a) /\ UNCHANGED aliases
           \/ /\ aliases[q][a] \in Names(r)
              /\ a \in Names(r) => a = aliases[q][a]
              /\ a \in Aliases(r) => aliases[r][a] = aliases[q][a]
              /\ job' = next(a) /\ Point(r, {a}, aliases[q][a])
    BY <1>8 DEF MergeAlias
  <2> QED BY <1>6, <1>7, <2>1
<1>9. QED
  BY <1>4, <1>8

LEMMA LoadStep ==
    ASSUME TablesInv, NEW m \in Modules, NEW r \in Registries, Load(m, r)
    PROVE  JobInv'
<1> DEFINE staged == [f \in Functions |-> Nothing]
<1>1. job' = [kind |-> "import", module |-> m, reg |-> r, todo |-> Body[m], staged |-> staged]
  BY DEF Load
<1>2. staged \in [Functions -> Staging] /\ \A f \in Functions : Distinct(staged[f].args)
  BY NothingStaged
<1>3. Body[m] \in Seq(Decorators)
  BY RegistryAssumption
<1>4. \A i \in 1 .. Len(Body[m]) : Body[m][i] \in Decorators
  BY <1>3
<1>5. \A d \in Decorators : d.do # "alias"
  BY DEF Decorators
<1>6. Body[m] \in Seq(Items)
  BY <1>3, <1>4 DEF Items
<1> HIDE DEF staged
<1>7. job' \in Imports /\ job'.staged = staged /\ job'.todo = Body[m]
  BY <1>1, <1>2, <1>6 DEF Imports
<1>8. \A i \in 1 .. Len(job'.todo) : ItemOK(job'.todo[i], Names(job.reg)')
  <2>1. \A i \in 1 .. Len(Body[m]) : PlainGroups => Straight(Body[m][i])
    <3>1. \A i \in 1 .. Len(Body[m]) : Body[m][i] \in Range(Body[m])
      BY <1>3 DEF Range
    <3> QED BY <1>4, <1>5, <3>1 DEF PlainGroups, Straight
  <2> QED BY <1>4, <1>5, <1>7, <2>1 DEF ItemOK
<1>9. ImportOK'
  BY <1>2, <1>7, <1>8 DEF ImportOK
<1>10. QED
  BY <1>9 DEF JobInv

LEMMA PluginStep ==
    ASSUME TablesInv, NEW q \in Registries, NEW r \in Registries, RegisterPlugin(q, r)
    PROVE  JobInv'
<1>1. Names(q) \subseteq Paths /\ Aliases(q) \subseteq Keys
  BY DEF TablesInv, Sound, OwnNames, OwnAliases, Names, Aliases
<1>2. /\ q # r /\ commands' = commands /\ aliases' = aliases
      /\ job' = [kind |-> "merge", reg |-> r, from |-> q, names |-> Names(q),
                 links |-> Aliases(q)]
  BY DEF RegisterPlugin
<1>3. job' \in Merges /\ job'.from = q /\ job'.reg = r
  BY <1>1, <1>2 DEF Merges
<1>4. job'.names = Names(q) /\ job'.links = Aliases(q)
  BY <1>2
<1>5. MergeOK'
  BY <1>2, <1>3, <1>4 DEF MergeOK, Names, Aliases
<1>6. QED
  BY <1>5 DEF JobInv

LEMMA ClearStep ==
    ASSUME TablesInv, JobInv, NEW r \in Registries, Clear(r)
    PROVE  TablesInv' /\ Stable /\ JobInv'
<1>1. job = NoJob /\ job' = job
  BY DEF Clear, Begin
<1>2. DOMAIN commands = Registries /\ DOMAIN aliases = Registries
  BY DEF TablesInv
<1>3. /\ commands'[r] = EmptyRegistry /\ aliases'[r] = EmptyRegistry
      /\ DOMAIN commands' = Registries /\ DOMAIN aliases' = Registries
      /\ \A q \in Registries \ {r} : commands'[q] = commands[q] /\ aliases'[q] = aliases[q]
  BY <1>2 DEF Clear
<1>4. Sound(EmptyRegistry, EmptyRegistry)
  BY DEF EmptyRegistry, Sound, OwnNames, OwnAliases, OwnOptions
<1>5. TablesInv' /\ Stable
  BY <1>3, <1>4, OneRegistry
<1>6. QED
  BY <1>1, <1>5 DEF JobInv

-----------------------------------------------------------------------------
(* The flags that are printed for a command: each has its alias, or the job  *)
(* under way is yet to come to it, or the command was cut.                   *)

\* The words that lead to command n by its flag o, behind the first k of its own.
Way(n, k, o) == Append(SubSeq(n, 1, k), o)

Aliased(r, n, o) ==
    \E k \in 0 .. Len(n) - 1 :
        Normal(Way(n, k, o)) \in Aliases(r) /\ aliases[r][Normal(Way(n, k, o))] = n

\* An alias path that an import has before it, and an alias that a merge has.
Promises(item, n, o) ==
    /\ item.do = "alias" /\ item.target = n
    /\ \E k \in 0 .. Len(n) - 1 : \E j \in DOMAIN item.paths : item.paths[j] = Way(n, k, o)

Linked(n, o) ==
    /\ n \notin job.names
    /\ \E k \in 0 .. Len(n) - 1 :
        Normal(Way(n, k, o)) \in job.links /\ aliases[job.from][Normal(Way(n, k, o))] = n

Awaited(r, n, o) ==
    /\ job # NoJob /\ job.reg = r
    /\ \/ job.kind = "import" /\ \E i \in 1 .. Len(job.todo) : Promises(job.todo[i], n, o)
       \/ job.kind = "merge" /\ Linked(n, o)

Led(r, n, o) == n \in cut[r] \/ Aliased(r, n, o) \/ Awaited(r, n, o)

FlagsInv ==
    /\ DOMAIN cut = Registries
    /\ \A r \in Registries : \A n \in Names(r) : \A o \in Range(commands[r][n].options) :
        Led(r, n, o)

\* What a step that keeps the tables has to show: aliases awaited have come or are
\* awaited still, and the flags of a new command lead to it.
LEMMA FlagsStay ==
    ASSUME FlagsInv, Grown, DOMAIN cut' = Registries,
           \A r \in Registries : cut[r] \subseteq cut'[r],
           \A r \in Registries : \A n \in Names(r) : \A o : Awaited(r, n, o) => Led(r, n, o)',
           \A r \in Registries : \A n \in Names(r)' \ Names(r) :
              \A o \in Range(commands'[r][n].options) : Led(r, n, o)'
    PROVE  FlagsInv'
<1> SUFFICES ASSUME NEW r \in Registries, NEW n \in Names(r)',
                    NEW o \in Range(commands'[r][n].options)
             PROVE  Led(r, n, o)'
  BY DEF FlagsInv
<1>1. CASE n \notin Names(r)
  BY <1>1
<1>2. CASE n \in Names(r)
  <2>1. commands'[r][n] = commands[r][n]
    BY <1>2 DEF Grown
  <2>2. Led(r, n, o)
    BY <1>2, <2>1 DEF FlagsInv
  <2>4. Aliased(r, n, o) => Aliased(r, n, o)'
    <3> SUFFICES ASSUME NEW k \in 0 .. Len(n) - 1, Normal(Way(n, k, o)) \in Aliases(r),
                        aliases[r][Normal(Way(n, k, o))] = n
                 PROVE  Aliased(r, n, o)'
      BY DEF Aliased
    <3>1. /\ Normal(Way(n, k, o)) \in Aliases(r)'
          /\ aliases'[r][Normal(Way(n, k, o))] = n
      BY DEF Grown
    <3> QED BY <3>1 DEF Aliased, Aliases
  <2>5. Led(r, n, o)'
    BY <1>2, <2>2, <2>4 DEF Led
  <2> QED BY <2>5
<1>3. QED
  BY <1>1, <1>2

LEMMA FailFlags ==
    ASSUME TablesInv, JobInv, FlagsInv, job # NoJob, Fail, UNCHANGED <<commands, aliases>>
    PROVE  FlagsInv'
<1>1. job.reg \in Registries /\ (ImportOK \/ MergeOK)
  BY DEF JobInv, ImportOK, Imports, MergeOK, Merges
<1>2. DOMAIN cut = Registries
  BY DEF FlagsInv
<1>3. /\ DOMAIN cut' = Registries /\ \A r \in Registries : cut[r] \subseteq cut'[r]
      /\ Owed \subseteq cut'[job.reg]
  BY <1>1, <1>2 DEF Fail
<1>4. ASSUME NEW r \in Registries, NEW n \in Names(r), NEW o, Awaited(r, n, o)
      PROVE  Led(r, n, o)'
  <2>1. r = job.reg
    BY <1>4 DEF Awaited
  <2>2. CASE job.kind = "import"
    <3>1. job.todo \in Seq(Items)
      BY <1>1, <2>2 DEF ImportOK, Imports, MergeOK, Merges
    <3>2. PICK i \in 1 .. Len(job.todo) : Promises(job.todo[i], n, o)
      BY <1>4, <2>2 DEF Awaited
    <3>3. job.todo[i] \in Range(job.todo) /\ job.todo[i].do = "alias" /\ job.todo[i].target = n
      BY <3>1, <3>2 DEF Range, Promises
    <3>4. n \in Owed
      BY <2>2, <3>3 DEF Owed
    <3> QED BY <1>3, <2>1, <3>4 DEF Led
  <2>3. CASE job.kind = "merge"
    <3>1. n \notin job.names /\ \E a \in job.links : aliases[job.from][a] = n
      BY <1>4, <2>3 DEF Awaited, Linked
    <3>2. n \in Owed
      BY <2>3, <3>1 DEF Owed
    <3> QED BY <1>3, <2>1, <3>2 DEF Led
  <2> QED BY <1>4, <2>2, <2>3 DEF Awaited
<1>5. Grown /\ \A r \in Registries : Names(r)' = Names(r)
  BY SameTables DEF Names
<1>6. QED
  BY <1>3, <1>4, <1>5, FlagsStay

\* An import replaces its next item by those of front.
LEMMA AwaitedOn ==
    ASSUME ImportOK, job.todo # <<>>, NEW front \in Seq(Items),
           job' # NoJob, job'.kind = "import", job'.reg = job.reg,
           job'.todo = front \o Tail(job.todo),
           NEW r \in Registries, NEW n, NEW o, Awaited(r, n, o)
    PROVE  Awaited(r, n, o)' \/ Promises(Head(job.todo), n, o)
<1>1. job.todo \in Seq(Items) /\ job.kind = "import" /\ Tail(job.todo) \in Seq(Items)
  BY DEF ImportOK, Imports
<1>2. PICK i \in 1 .. Len(job.todo) : Promises(job.todo[i], n, o)
  BY <1>1 DEF Awaited
<1>3. CASE i = 1
  <2>1. Head(job.todo) = job.todo[i]
    BY <1>1, <1>3
  <2> QED BY <1>2, <2>1
<1>4. CASE i # 1
  <2> DEFINE m == Len(front) + i - 1
  <2>1. m \in 1 .. Len(job'.todo) /\ job'.todo[m] = job.todo[i]
    BY <1>1, <1>4
  <2> HIDE DEF m
  <2>2. job.reg = r
    BY DEF Awaited
  <2>3. Promises(job'.todo[m], n, o)
    BY <1>2, <2>1
  <2>4. Awaited(r, n, o)'
    BY <2>1, <2>2, <2>3 DEF Awaited, Promises, Way
  <2> QED BY <2>4
<1>5. QED
  BY <1>3, <1>4

\* An item that is no alias path.
LEMMA PassesOn ==
    ASSUME ImportOK, job.todo # <<>>, Head(job.todo).do # "alias",
           job' # NoJob, job'.kind = "import", job'.reg = job.reg, job'.todo = Tail(job.todo)
    PROVE  \A r \in Registries : \A n : \A o : Awaited(r, n, o) => Awaited(r, n, o)'
<1>1. <<>> \in Seq(Items) /\ job'.todo = <<>> \o Tail(job.todo)
  BY DEF ImportOK, Imports
<1>2. QED
  BY <1>1, AwaitedOn DEF Promises

LEMMA StagingFlags ==
    ASSUME TablesInv, JobInv, FlagsInv, \/ StageArgument \/ StageOption \/ StageConfirm
                                        \/ StageDryRun \/ ContextFactory \/ Raise
    PROVE  FlagsInv'
<1>1. UNCHANGED <<commands, aliases>>
  BY DEF StageArgument, StageOption, StageConfirm, StageDryRun, ContextFactory, Raise
<1>2. ImportOK /\ job.todo # <<>> /\ Head(job.todo).do # "alias"
  <2>1. \/ At("argument") \/ At("option") \/ At("confirm")
        \/ At("dry_run") \/ At("context_factory") \/ At("raise")
    BY DEF StageArgument, StageOption, StageConfirm, StageDryRun, ContextFactory, Raise
  <2>2. PICK what : At(what) /\ what # "alias"
    BY <2>1
  <2> QED BY <2>2, AtItem
<1>3. job \in Imports /\ job # NoJob
  BY <1>2 DEF ImportOK, Imports, NoJob
<1>4. CASE Fail
  BY <1>1, <1>3, <1>4, FailFlags
<1>5. CASE ~Fail
  <2>1. \/ \E x : Goes([job EXCEPT !.staged[Head(job.todo).fn].args = x])
        \/ \E x : Goes([job EXCEPT !.staged[Head(job.todo).fn].options = x])
        \/ \E x : Goes([job EXCEPT !.staged[Head(job.todo).fn].confirm = x])
        \/ \E x : Goes([job EXCEPT !.staged[Head(job.todo).fn].dry = x])
        \/ Goes(job)
    BY <1>5 DEF StageArgument, StageOption, StageConfirm, StageDryRun, ContextFactory, Raise,
                NextLine
  <2>2. /\ job'.kind = "import" /\ job'.reg = job.reg /\ job'.todo = Tail(job.todo)
        /\ cut' = cut
    BY <1>3, <2>1 DEF Goes, Imports
  <2>3. job' # NoJob
    BY <2>2 DEF NoJob
  <2>4. \A r \in Registries : \A n : \A o : Awaited(r, n, o) => Led(r, n, o)'
    BY <1>2, <2>2, <2>3, PassesOn DEF Led
  <2>5. Grown /\ \A r \in Registries : Names(r)' = Names(r)
    BY <1>1, SameTables DEF Names
  <2> QED BY <2>2, <2>4, <2>5, FlagsStay DEF FlagsInv
<1>6. QED
  BY <1>4, <1>5

\* The flags of a command are pointed to it, without words in front.
LEMMA PointedFlags ==
    ASSUME TablesInv, NEW r \in Registries, NEW n \in Paths, NEW options,
           Point(r, OptionKeys(options), n), NEW o \in Range(options)
    PROVE  Aliased(r, n, o)'
<1>1. 0 \in 0 .. Len(n) - 1 /\ Way(n, 0, o) = <<o>>
  <2>1. n \in Seq(Word) /\ n # <<>>
    BY DEF Paths
  <2>2. Len(n) \in Nat /\ Len(n) # 0
    BY <2>1
  <2>3. SubSeq(n, 1, 0) = <<>>
    BY <2>1
  <2>4. Append(<<>>, o) = <<o>>
    OBVIOUS
  <2>5. Way(n, 0, o) = <<o>>
    BY <2>3, <2>4 DEF Way
  <2> QED BY <2>2, <2>5
<1>2. Normal(<<o>>) \in OptionKeys(options)
  BY DEF OptionKeys, Range
<1>3. Normal(<<o>>) \in Aliases(r)' /\ aliases'[r][Normal(<<o>>)] = n
  BY <1>2 DEF Point, With, Aliases, TablesInv
<1>4. Normal(Way(n, 0, o)) \in Aliases(r)' /\ aliases'[r][Normal(Way(n, 0, o))] = n
  BY <1>1, <1>3
<1>5. QED
  BY <1>1, <1>4 DEF Aliased, Aliases

\* A step that stores one entry, whose flags lead to it.
LEMMA StoresFlags ==
    ASSUME TablesInv, FlagsInv, NEW r \in Registries, NEW e, Store(r, e), Grown,
           DOMAIN cut' = Registries, \A q \in Registries : cut[q] \subseteq cut'[q],
           \A q \in Registries : \A n : \A o : Awaited(q, n, o) => Led(q, n, o)',
           \A o \in Range(e.options) : Led(r, e.name, o)'
    PROVE  FlagsInv'
<1>1. /\ \A q \in Registries : q # r => Names(q)' = Names(q)
      /\ Names(r)' = Names(r) \cup {e.name} /\ commands'[r][e.name] = e
  BY DEF Store, With, Names, TablesInv
<1>2. ASSUME NEW q \in Registries, NEW n \in Names(q)' \ Names(q)
      PROVE  \A o \in Range(commands'[q][n].options) : Led(q, n, o)'
  <2>1. q = r /\ n = e.name
    BY <1>1
  <2> QED BY <1>1, <2>1
<1>3. QED
  BY <1>2, FlagsStay

LEMMA RegisterFlags ==
    ASSUME TablesInv, JobInv, FlagsInv, Register
    PROVE  FlagsInv'
<1> DEFINE d == Head(job.todo)
           given == Staged(d.fn).options
           name == IF d.name # <<>> THEN d.name ELSE DeriveCommandName(given, d.fn)
<1>1. ImportOK /\ job.todo # <<>> /\ d.do = "register"
  BY AtItem DEF Register
<1>2. /\ d.fn \in Functions /\ d.name \in Seq(Word) /\ job.reg \in Registries
      /\ job \in Imports /\ job # NoJob
  BY <1>1, NextItem DEF ImportOK, Imports, NoJob
<1>3. given \in Seq(Dashed)
  BY <1>1, <1>2, StagedType
<1>4. name \in Paths
  BY <1>2, <1>3, DerivedName DEF Paths
<1>5. CASE Fail /\ UNCHANGED <<commands, aliases>>
  BY <1>2, <1>5, FailFlags
<1>6. CASE ~(Fail /\ UNCHANGED <<commands, aliases>>)
  <2>1. /\ Goes(Taken(d.fn)) /\ Store(job.reg, Entry(name, d.fn))
        /\ Point(job.reg, OptionKeys(given), name)
    BY <1>6 DEF Register, InUse
  <2>2. Entry(name, d.fn).name = name /\ Entry(name, d.fn).options = given
    BY <1>1, <1>2, <1>4, EntrySound
  <2>3. PICK r \in Registries, n \in Paths, options \in Seq(Dashed), e \in {Entry(name, d.fn)} :
           /\ Store(r, e) /\ Point(r, OptionKeys(options), n)
           /\ e.name = n /\ e.options = options
    <3> HIDE DEF given, name, d
    <3> QED BY <1>2, <1>3, <1>4, <2>1, <2>2
  <2>4. /\ job'.kind = "import" /\ job'.reg = job.reg /\ job'.todo = Tail(job.todo)
        /\ cut' = cut
    BY <1>2, <2>1 DEF Goes, Taken, Imports
  <2>5. job' # NoJob
    BY <2>4 DEF NoJob
  <2>6. \A q \in Registries : \A m : \A o : Awaited(q, m, o) => Led(q, m, o)'
    BY <1>1, <2>4, <2>5, PassesOn DEF Led
  <2>7. \A o \in Range(e.options) : Led(r, e.name, o)'
    BY <2>3, PointedFlags DEF Led
  <2>8. DOMAIN cut' = Registries /\ \A q \in Registries : cut[q] \subseteq cut'[q]
    BY <2>4 DEF FlagsInv
  <2> QED BY <2>3, <2>6, <2>7, <2>8, RegisterStep, StoresFlags
<1>7. QED
  BY <1>5, <1>6

LEMMA EndingItem ==
    ASSUME NEW name \in Paths, NEW paths \in Seq(Paths), NEW word \in Seq(Word)
    PROVE  Ending(name, paths, word) \in Items
<1> DEFINE ended == [i \in DOMAIN paths |-> paths[i] \o word]
<1>1. DOMAIN paths = 1 .. Len(paths) /\ Len(paths) \in Nat
  OBVIOUS
<1>2. \A i \in DOMAIN paths : paths[i] \o word \in Paths
  BY JoinedName
<1>3. ended \in Seq(Paths)
  BY <1>1, <1>2
<1> HIDE DEF ended
<1>4. [do |-> "alias", target |-> name, paths |-> ended] \in Items
  BY <1>3 DEF Items
<1>5. QED
  BY <1>4 DEF Ending, ended

LEMMA LeadingWords ==
    ASSUME NEW path \in Paths, NEW leaf \in Seq(Word), leaf # <<>>, NEW o
    PROVE  /\ Len(path) \in 0 .. Len(path \o leaf) - 1
           /\ Way(path \o leaf, Len(path), o) = path \o <<o>>
<1>1. path \in Seq(Word) /\ path # <<>>
  BY DEF Paths
<1>2. Len(path) \in Nat /\ Len(leaf) \in Nat /\ Len(leaf) # 0
  BY <1>1
<1>3. path \o leaf \in Seq(Word) /\ Len(path \o leaf) = Len(path) + Len(leaf)
  BY <1>1
<1>4. SubSeq(path \o leaf, 1, Len(path)) = path
  <2>1. \A i \in 1 .. Len(path) : (path \o leaf)[i] = path[i]
    BY <1>1
  <2>2. SubSeq(path \o leaf, 1, Len(path)) = [i \in 1 .. Len(path) |-> (path \o leaf)[i]]
    BY <1>2, <1>3
  <2>3. path = [i \in 1 .. Len(path) |-> path[i]]
    BY <1>1
  <2> QED BY <2>1, <2>2, <2>3
<1>5. Append(path, o) = path \o <<o>>
  BY <1>1
<1>6. QED
  BY <1>2, <1>3, <1>4, <1>5 DEF Way

\* What the group of a command puts before the import: under(paths, word) of
\* GroupRegister, and the items that end in its flags.
LEMMA GroupRegisterFlags ==
    ASSUME TablesInv, JobInv, FlagsInv, GroupRegister
    PROVE  FlagsInv'
<1> DEFINE d == Head(job.todo)
           given == Staged(d.fn).options
           leaf == IF d.name # <<>> THEN d.name ELSE DeriveCommandName(given, d.fn)
           Ahead(name) ==
              IF d.alias_paths = <<>> THEN <<>> ELSE <<Ending(name, d.alias_paths, leaf)>>
           Flags(name, paths, options) ==
              [k \in DOMAIN options |-> Ending(name, paths, <<options[k]>>)]
<1>1. ImportOK /\ job.todo # <<>> /\ d.do = "group_register"
  BY AtItem DEF GroupRegister
<1>2. /\ d.fn \in Functions /\ d.path \in Paths /\ d.alias_paths \in Seq(Paths)
      /\ d.name \in Seq(Word) /\ job.reg \in Registries /\ job.todo \in Seq(Items)
      /\ job \in Imports /\ job # NoJob
  BY <1>1, NextItem DEF ImportOK, Imports, NoJob
<1>3. given \in Seq(Dashed)
  BY <1>1, <1>2, StagedType
<1>4. leaf \in Seq(Word) /\ leaf # <<>> /\ d.path \o leaf \in Paths
  BY <1>2, <1>3, DerivedName, JoinedName DEF Paths
<1>5. CASE Fail /\ UNCHANGED <<commands, aliases>>
  BY <1>2, <1>5, FailFlags
<1>6. CASE ~(Fail /\ UNCHANGED <<commands, aliases>>)
  <2> DEFINE whole == d.path \o leaf
             around == <<d.path>> \o d.alias_paths
  <2>1. /\ Store(job.reg, Entry(whole, d.fn)) /\ cut' = cut
        /\ job' = [Taken(d.fn) EXCEPT
                     !.todo = (Ahead(whole) \o Flags(whole, around, given)) \o Tail(@)]
    BY <1>6 DEF GroupRegister, InUse, Ending
  <2>2. Entry(whole, d.fn).name = whole /\ Entry(whole, d.fn).options = given
    BY <1>1, <1>2, <1>4, EntrySound
  <2>3. /\ job'.kind = "import" /\ job'.reg = job.reg
        /\ job'.todo = (Ahead(whole) \o Flags(whole, around, given)) \o Tail(job.todo)
    <3> HIDE DEF Ahead, Flags, whole, around, given, d
    <3> QED BY <1>2, <2>1 DEF Taken, Imports
  <2>4. job' # NoJob
    <3>1. job'.kind = "import"
      BY <2>3
    <3> QED BY <3>1 DEF NoJob
  <2>5. around \in Seq(Paths) /\ 1 \in DOMAIN around /\ around[1] = d.path
    <3> HIDE DEF d
    <3> QED BY <1>2
  <2>6. Ahead(whole) \in Seq(Items)
    <3>1. Ending(whole, d.alias_paths, leaf) \in Items
      <4> HIDE DEF whole, d, leaf
      <4> QED BY <1>2, <1>4, EndingItem DEF whole
    <3> HIDE DEF whole, d, leaf
    <3> QED BY <3>1
  <2> DEFINE entry == Entry(whole, d.fn)
  <2>7. PICK r \in Registries, name \in Paths, options \in Seq(Dashed), e \in {entry},
             paths \in Seq(Paths), path \in Paths, front \in Seq(Items), rest \in Seq(Items),
             last_word \in Seq(Word) :
           /\ r = job.reg /\ Store(r, e) /\ e.name = name /\ e.options = options
           /\ 1 \in DOMAIN paths /\ paths[1] = path
           /\ last_word # <<>> /\ name = path \o last_word
           /\ job'.todo = (front \o Flags(name, paths, options)) \o rest
           /\ rest = Tail(job.todo)
    <3>1. Tail(job.todo) \in Seq(Items)
      BY <1>1, <1>2
    <3>2. whole = d.path \o leaf
      OBVIOUS
    <3>3. Store(job.reg, entry) /\ entry.name = whole /\ entry.options = given
      BY <2>1, <2>2
    <3> HIDE DEF Ahead, Flags, whole, around, given, d, leaf, entry
    <3> QED BY <3>3, <1>2, <1>3, <1>4, <2>1, <2>2, <2>3, <2>5, <2>6, <3>1, <3>2
  <2> DEFINE flags == Flags(name, paths, options)
  <2>8. /\ flags \in Seq(Items) /\ Len(flags) = Len(options)
        /\ \A k \in 1 .. Len(options) : flags[k] = Ending(name, paths, <<options[k]>>)
    <3>1. ASSUME NEW k \in DOMAIN options PROVE Ending(name, paths, <<options[k]>>) \in Items
      <4>1. <<options[k]>> \in Seq(Word)
        BY DEF Dashed
      <4> QED BY <4>1, EndingItem
    <3>2. DOMAIN options = 1 .. Len(options) /\ Len(options) \in Nat
      OBVIOUS
    <3> QED BY <3>1, <3>2
  <2> HIDE DEF Flags, Ahead, flags, given, d, leaf, whole, around, entry
  <2>9. front \o flags \in Seq(Items) /\ job'.todo = (front \o flags) \o rest
    BY <2>7, <2>8 DEF flags
  <2>10. ASSUME NEW o \in Range(e.options) PROVE Led(r, e.name, o)'
    <3>1. PICK k \in 1 .. Len(options) : o = options[k]
      BY <2>7 DEF Range
    <3>2. PICK m \in 1 .. Len(job'.todo) : job'.todo[m] = flags[k]
      <4>1. Len(front) \in Nat /\ Len(options) \in Nat /\ Len(rest) \in Nat
        OBVIOUS
      <4>2. /\ Len(front) + k \in 1 .. Len(front \o flags)
            /\ (front \o flags)[Len(front) + k] = flags[k]
        BY <2>8, <4>1
      <4> DEFINE both == front \o flags
                 m == Len(front) + k
      <4>3. both \in Seq(Items) /\ m \in 1 .. Len(both) /\ job'.todo = both \o rest
        BY <2>9, <4>2
      <4>4. both[m] = flags[k]
        BY <4>2
      <4> HIDE DEF both, m
      <4>5. m \in 1 .. Len(job'.todo) /\ job'.todo[m] = both[m]
        BY <4>1, <4>3
      <4> QED BY <4>4, <4>5
    <3>3. /\ flags[k].do = "alias" /\ flags[k].target = name
          /\ 1 \in DOMAIN flags[k].paths /\ flags[k].paths[1] = path \o <<o>>
      <4>1. flags[k] = Ending(name, paths, <<o>>)
        BY <2>8, <3>1
      <4>2. flags[k].paths = [i \in DOMAIN paths |-> paths[i] \o <<o>>]
        BY <4>1 DEF Ending
      <4>3. flags[k].do = "alias" /\ flags[k].target = name
        BY <4>1 DEF Ending
      <4> QED BY <2>7, <4>2, <4>3
    <3>4. Len(path) \in 0 .. Len(name) - 1 /\ Way(name, Len(path), o) = path \o <<o>>
      BY <2>7, LeadingWords
    <3>5. Promises(job'.todo[m], name, o)
      BY <3>2, <3>3, <3>4 DEF Promises
    <3>6. Awaited(r, name, o)'
      BY <2>3, <2>4, <2>7, <3>5 DEF Awaited, Promises, Way
    <3> QED BY <2>7, <3>6 DEF Led
  <2>11. \A q \in Registries : \A n : \A o : Awaited(q, n, o) => Led(q, n, o)'
    <3>1. ASSUME NEW n, NEW o PROVE ~Promises(Head(job.todo), n, o)
      BY <1>1 DEF Promises, d
    <3>2. job'.todo = (front \o flags) \o Tail(job.todo)
      BY <2>7, <2>9
    <3> QED BY <1>1, <2>3, <2>4, <2>9, <3>1, <3>2, AwaitedOn DEF Led
  <2>12. DOMAIN cut' = Registries /\ \A q \in Registries : cut[q] \subseteq cut'[q]
    BY <2>1 DEF FlagsInv
  <2> QED BY <2>7, <2>10, <2>11, <2>12, GroupRegisterStep, StoresFlags
<1>7. QED
  BY <1>5, <1>6

\* A step that leaves the commands as they are.
LEMMA AwaitedCome ==
    ASSUME TablesInv, FlagsInv, Grown, UNCHANGED <<commands, cut>>,
           \A r \in Registries : \A n \in Names(r) : \A o : Awaited(r, n, o) => Led(r, n, o)'
    PROVE  FlagsInv'
<1>1. \A r \in Registries : Names(r)' = Names(r)
  BY DEF Names
<1>2. DOMAIN cut' = Registries /\ \A r \in Registries : cut[r] \subseteq cut'[r]
  BY DEF FlagsInv
<1>3. QED
  BY <1>1, <1>2, FlagsStay

LEMMA AliasPathFlags ==
    ASSUME TablesInv, JobInv, FlagsInv, RegisterAliasPath
    PROVE  FlagsInv'
<1> DEFINE d == Head(job.todo)
           path == Head(d.paths)
           rest == [d EXCEPT !.paths = Tail(@)]
           later == IF Tail(d.paths) = <<>> THEN <<>> ELSE <<rest>>
<1>1. ImportOK /\ job.todo # <<>> /\ d.do = "alias"
  BY AtItem DEF RegisterAliasPath
<1>2. /\ d \in Items /\ ItemOK(d, Names(job.reg)) /\ d.paths \in Seq(Paths)
      /\ job.reg \in Registries /\ job \in Imports /\ job # NoJob /\ job.todo \in Seq(Items)
  BY <1>1, NextItem DEF ImportOK, Imports, NoJob
<1>3. CASE Fail /\ UNCHANGED <<commands, aliases>>
  BY <1>2, <1>3, FailFlags
<1>4. CASE ~(Fail /\ UNCHANGED <<commands, aliases>>)
  <2>1. /\ Point(job.reg, {Normal(path)}, d.target)
        /\ commands' = commands /\ cut' = cut
        /\ job' = [job EXCEPT !.todo = later \o Tail(@)]
    BY <1>4 DEF RegisterAliasPath, InUse
  <2>2. job'.kind = "import" /\ job'.reg = job.reg /\ job'.todo = later \o Tail(job.todo)
    <3> HIDE DEF later
    <3> QED BY <1>2, <2>1 DEF Imports
  <2>3. job' # NoJob
    <3>1. job'.kind = "import"
      BY <2>2
    <3> QED BY <3>1 DEF NoJob
  <2>4. /\ d \in [do : {"alias"}, target : Paths, paths : Seq(Paths)] /\ d.paths # <<>>
    <3> HIDE DEF d
    <3> QED BY <1>1, <1>2 DEF Items, Decorators, ItemOK
  <2>5. /\ rest \in Items /\ rest.do = "alias" /\ rest.target = d.target
        /\ rest.paths = Tail(d.paths)
    <3> HIDE DEF d
    <3>1. Tail(d.paths) \in Seq(Paths)
      BY <2>4
    <3> QED BY <2>4, <3>1 DEF Items
  <2>6. later \in Seq(Items)
    <3> HIDE DEF rest, d
    <3> QED BY <2>5
  <2>7. ASSUME NEW r \in Registries, NEW n \in Names(r), NEW o, Awaited(r, n, o)
        PROVE  Led(r, n, o)'
    <3>1. r = job.reg
      BY <2>7 DEF Awaited
    <3>2. CASE Awaited(r, n, o)'
      BY <3>2 DEF Led
    <3>3. CASE Promises(d, n, o)
      <4>1. PICK k \in 0 .. Len(n) - 1, j \in DOMAIN d.paths : d.paths[j] = Way(n, k, o)
        BY <3>3 DEF Promises
      <4>2. d.target = n
        BY <3>3 DEF Promises
      <4>3. CASE j = 1
        <5>1. path = Way(n, k, o)
          <6> HIDE DEF d
          <6> QED BY <1>2, <4>1, <4>3
        <5> HIDE DEF d, path
        <5>2. PICK key : key = Normal(Way(n, k, o))
          OBVIOUS
        <5>3. aliases' = [aliases EXCEPT ![r] = With(@, {key}, n)]
          BY <2>1, <3>1, <4>2, <5>1, <5>2 DEF Point
        <5>4. key \in Aliases(r)' /\ aliases'[r][key] = n
          BY <5>3 DEF With, Aliases, TablesInv
        <5>5. Aliased(r, n, o)'
          BY <5>2, <5>4 DEF Aliased, Aliases, Normal, Way
        <5> QED BY <5>5 DEF Led
      <4>4. CASE j # 1
        <5>1. /\ Tail(d.paths) # <<>> /\ j - 1 \in DOMAIN Tail(d.paths)
              /\ Tail(d.paths)[j - 1] = Way(n, k, o)
          <6> HIDE DEF d
          <6>1. Len(d.paths) \in Nat /\ j \in 1 .. Len(d.paths) /\ Len(d.paths) >= 2
            BY <1>2, <4>1, <4>4
          <6>2. /\ Tail(d.paths) \in Seq(Paths) /\ Len(Tail(d.paths)) = Len(d.paths) - 1
            BY <1>2, <6>1
          <6>3. Tail(d.paths)[j - 1] = d.paths[j]
            BY <1>2, <4>4, <6>1
          <6> QED BY <4>1, <4>4, <6>1, <6>2, <6>3
        <5>2. Promises(rest, n, o)
          <6> HIDE DEF rest, d
          <6> QED BY <2>5, <4>2, <5>1 DEF Promises
        <5>3. later = <<rest>>
          BY <5>1
        <5>4. 1 \in 1 .. Len(job'.todo) /\ job'.todo[1] = rest
          <6> HIDE DEF later, rest
          <6> QED BY <1>1, <1>2, <2>2, <2>5, <5>3
        <5> HIDE DEF later, rest, d
        <5>5. \E i \in 1 .. Len(job'.todo) : Promises(job'.todo[i], n, o)
          BY <5>2, <5>4
        <5>6. Awaited(r, n, o)'
          BY <2>2, <2>3, <3>1, <5>5 DEF Awaited, Promises, Way
        <5> QED BY <5>6 DEF Led
      <4> QED BY <4>3, <4>4
    <3>4. Awaited(r, n, o)' \/ Promises(d, n, o)
      <4> HIDE DEF later
      <4> QED BY <1>1, <2>2, <2>3, <2>6, <2>7, AwaitedOn
    <3> QED BY <3>2, <3>3, <3>4
  <2>8. Grown
    BY RegisterAliasPathStep
  <2> QED BY <2>1, <2>7, <2>8, AwaitedCome
<1>5. QED
  BY <1>3, <1>4

\* An alias of the registry merged: it is asked for anew when its command is there.
LEMMA MergeCommandFlags ==
    ASSUME TablesInv, JobInv, FlagsInv, MergeCommand
    PROVE  FlagsInv'
<1>1. MergeOK
  BY Merging DEF MergeCommand
<1>2. /\ job \in Merges /\ job.reg \in Registries /\ job.from \in Registries
      /\ job.from # job.reg /\ job.names \subseteq Names(job.from)
      /\ job.names # {} => job.links = Aliases(job.from)
      /\ job # NoJob /\ job.kind = "merge"
  BY <1>1 DEF MergeOK, Merges, NoJob
<1>3. CASE Fail /\ UNCHANGED <<commands, aliases>>
  BY <1>2, <1>3, FailFlags
<1>4. CASE ~(Fail /\ UNCHANGED <<commands, aliases>>)
  <2> DEFINE keys(n) == IF Len(n) = 1 THEN OptionKeys(commands[job.from][n].options) ELSE {}
  <2>1. PICK n \in job.names :
           /\ Store(job.reg, commands[job.from][n]) /\ Point(job.reg, keys(n), n)
           /\ job' = [job EXCEPT !.names = @ \ {n}]
           /\ cut' = [cut EXCEPT ![job.reg] = @ \cup ({n} \cap cut[job.from])]
    BY <1>4 DEF MergeCommand
  <2> HIDE DEF keys
  <2>2. PICK r \in Registries, q \in Registries, e \in {commands[job.from][n]} :
           /\ r = job.reg /\ q = job.from /\ e = commands[q][n] /\ r # q
    BY <1>2
  <2>3. n \in Names(q) /\ e.name = n
    BY <1>2, <2>1, <2>2 DEF TablesInv, Sound, OwnNames, Names
  <2>4. /\ job'.kind = "merge" /\ job'.reg = r /\ job'.from = q
        /\ job'.names = job.names \ {n} /\ job'.links = job.links
    BY <1>2, <2>1, <2>2 DEF Merges
  <2>5. job' # NoJob
    BY <2>4 DEF NoJob
  <2>6. aliases'[q] = aliases[q]
    BY <2>1, <2>2 DEF Point, TablesInv
  <2>7. /\ DOMAIN cut' = Registries /\ \A p \in Registries : cut[p] \subseteq cut'[p]
        /\ n \in cut[q] => n \in cut'[r]
    BY <2>1, <2>2 DEF FlagsInv
  <2>8. ASSUME NEW p \in Registries, NEW m, NEW o, Awaited(p, m, o) PROVE Led(p, m, o)'
    <3>1. p = r /\ Linked(m, o)
      BY <1>2, <2>2, <2>8 DEF Awaited
    <3>2. PICK k \in 0 .. Len(m) - 1 :
             Normal(Way(m, k, o)) \in job.links /\ aliases[q][Normal(Way(m, k, o))] = m
      BY <2>2, <3>1 DEF Linked
    <3>3. m \notin job'.names
      BY <2>4, <3>1 DEF Linked
    <3>4. Normal(Way(m, k, o)) \in job'.links /\ aliases'[job'.from][Normal(Way(m, k, o))] = m
      BY <2>4, <2>6, <3>2
    <3>5. Linked(m, o)'
      BY <3>3, <3>4 DEF Linked, Normal, Way
    <3> QED BY <2>4, <2>5, <3>1, <3>5 DEF Led, Awaited
  <2>9. ASSUME NEW o \in Range(e.options) PROVE Led(r, n, o)'
    <3>1. Led(q, n, o)
      BY <2>2, <2>3, <2>9 DEF FlagsInv
    <3>2. CASE n \in cut[q]
      BY <2>7, <3>2 DEF Led
    <3>3. CASE Aliased(q, n, o)
      <4>1. PICK k \in 0 .. Len(n) - 1 :
               Normal(Way(n, k, o)) \in Aliases(q) /\ aliases[q][Normal(Way(n, k, o))] = n
        BY <3>3 DEF Aliased
      <4>2. job.links = Aliases(q)
        BY <1>2, <2>1, <2>2
      <4>3. n \notin job'.names
        BY <2>4
      <4>4. /\ Normal(Way(n, k, o)) \in job'.links
            /\ aliases'[job'.from][Normal(Way(n, k, o))] = n
        BY <2>4, <2>6, <4>1, <4>2
      <4>5. Linked(n, o)'
        BY <4>3, <4>4 DEF Linked, Normal, Way
      <4> QED BY <2>4, <2>5, <4>5 DEF Led, Awaited
    <3>4. ~Awaited(q, n, o)
      BY <2>2 DEF Awaited
    <3> QED BY <3>1, <3>2, <3>3, <3>4 DEF Led
  <2>10. Store(r, e)
    BY <2>1, <2>2
  <2> QED BY <2>3, <2>7, <2>8, <2>9, <2>10, MergeCommandStep, StoresFlags
<1>5. QED
  BY <1>3, <1>4

LEMMA MergeAliasFlags ==
    ASSUME TablesInv, JobInv, FlagsInv, MergeAlias
    PROVE  FlagsInv'
<1>1. MergeOK
  BY Merging DEF MergeAlias
<1>2. /\ job \in Merges /\ job.reg \in Registries /\ job.from \in Registries
      /\ job.from # job.reg /\ job # NoJob /\ job.kind = "merge" /\ commands' = commands
  BY <1>1 DEF MergeOK, Merges, NoJob, MergeAlias
<1>3. CASE Fail /\ UNCHANGED aliases
  BY <1>2, <1>3, FailFlags
<1>4. CASE ~(Fail /\ UNCHANGED aliases)
  <2>1. PICK a \in job.links, r \in Registries, q \in Registries :
           /\ r = job.reg /\ q = job.from /\ r # q
           /\ job' = [job EXCEPT !.links = @ \ {a}] /\ cut' = cut
           /\ aliases[q][a] \in Names(r) => Point(r, {a}, aliases[q][a])
           /\ aliases[q][a] \notin Names(r) => aliases' = aliases
    BY <1>2, <1>4 DEF MergeAlias
  <2>2. /\ job'.kind = "merge" /\ job'.reg = r /\ job'.from = q
        /\ job'.names = job.names /\ job'.links = job.links \ {a}
    BY <1>2, <2>1 DEF Merges
  <2>3. job' # NoJob
    BY <2>2 DEF NoJob
  <2>4. aliases'[q] = aliases[q]
    BY <2>1 DEF Point, TablesInv
  <2>5. ASSUME NEW p \in Registries, NEW n \in Names(p), NEW o, Awaited(p, n, o)
        PROVE  Led(p, n, o)'
    <3>1. p = r /\ Linked(n, o)
      BY <1>2, <2>1, <2>5 DEF Awaited
    <3>2. PICK k \in 0 .. Len(n) - 1 :
             Normal(Way(n, k, o)) \in job.links /\ aliases[q][Normal(Way(n, k, o))] = n
      BY <2>1, <3>1 DEF Linked
    <3>3. CASE Normal(Way(n, k, o)) = a
      <4>1. aliases' = [aliases EXCEPT ![r] = With(@, {a}, n)]
        BY <2>1, <2>5, <3>1, <3>2, <3>3 DEF Point
      <4>2. a \in Aliases(r)' /\ aliases'[r][a] = n
        BY <4>1 DEF With, Aliases, TablesInv
      <4>3. Aliased(r, n, o)'
        BY <3>3, <4>2 DEF Aliased, Aliases, Normal, Way
      <4> QED BY <3>1, <4>3 DEF Led
    <3>4. CASE Normal(Way(n, k, o)) # a
      <4>1. n \notin job'.names
        BY <2>2, <3>1 DEF Linked
      <4>2. /\ Normal(Way(n, k, o)) \in job'.links
            /\ aliases'[job'.from][Normal(Way(n, k, o))] = n
        BY <2>2, <2>4, <3>2, <3>4
      <4>3. Linked(n, o)'
        BY <4>1, <4>2 DEF Linked, Normal, Way
      <4> QED BY <2>2, <2>3, <3>1, <4>3 DEF Led, Awaited
    <3> QED BY <3>3, <3>4
  <2> QED BY <1>2, <2>1, <2>5, MergeAliasStep, AwaitedCome
<1>5. QED
  BY <1>3, <1>4

\* A job begins, or has come to its end: nothing is awaited.
LEMMA IdleFlags ==
    ASSUME TablesInv, JobInv, FlagsInv, UNCHANGED <<commands, aliases, cut>>,
           \/ job = NoJob
           \/ job.kind = "import" /\ job.todo = <<>>
           \/ job.kind = "merge" /\ job.links = {}
    PROVE  FlagsInv'
<1>1. \A r \in Registries : \A n : \A o : ~Awaited(r, n, o)
  <2>1. Len(<<>>) = 0 /\ 1 .. 0 = {}
    OBVIOUS
  <2> QED BY <2>1 DEF Awaited, Linked
<1>2. Grown
  BY SameTables
<1>3. QED
  BY <1>1, <1>2, AwaitedCome

LEMMA ClearFlags ==
    ASSUME TablesInv, FlagsInv, NEW r \in Registries, Clear(r)
    PROVE  FlagsInv'
<1>1. job = NoJob /\ job' = NoJob
  BY DEF Clear, Begin
<1>2. /\ DOMAIN cut' = Registries /\ Names(r)' = {}
      /\ \A q \in Registries : q # r => /\ commands'[q] = commands[q]
                                        /\ aliases'[q] = aliases[q] /\ cut'[q] = cut[q]
  BY DEF Clear, TablesInv, FlagsInv, EmptyRegistry, Names
<1>3. ASSUME NEW q \in Registries, q # r, NEW n \in Names(q)',
             NEW o \in Range(commands'[q][n].options)
      PROVE  Led(q, n, o)'
  <2>1. Led(q, n, o) /\ ~Awaited(q, n, o)
    BY <1>1, <1>2, <1>3 DEF FlagsInv, Names, Awaited
  <2>2. Aliased(q, n, o) => Aliased(q, n, o)'
    BY <1>2, <1>3 DEF Aliased, Aliases, Way, Normal
  <2> QED BY <1>2, <1>3, <2>1, <2>2 DEF Led
<1>4. QED
  BY <1>2, <1>3 DEF FlagsInv

\* Whatever the program does to its registries, the flags lead on.
LEMMA RegistryFlags ==
    ASSUME TablesInv, JobInv, FlagsInv, Next
    PROVE  FlagsInv'
<1>1. ASSUME NEW m \in Modules, NEW r \in Registries, Load(m, r) PROVE FlagsInv'
  BY <1>1, IdleFlags DEF Load, Begin
<1>2. CASE \/ StageArgument \/ StageOption \/ StageConfirm \/ StageDryRun
           \/ ContextFactory \/ Raise
  BY <1>2, StagingFlags
<1>3. CASE Register
  BY <1>3, RegisterFlags
<1>4. CASE GroupRegister
  BY <1>4, GroupRegisterFlags
<1>5. CASE RegisterAliasPath
  BY <1>5, AliasPathFlags
<1>6. CASE Loaded
  BY <1>6, IdleFlags DEF Loaded
<1>7. ASSUME NEW q \in Registries, NEW r \in Registries, RegisterPlugin(q, r) PROVE FlagsInv'
  BY <1>7, IdleFlags DEF RegisterPlugin, Begin
<1>8. CASE MergeCommand
  BY <1>8, MergeCommandFlags
<1>9. CASE MergeAlias
  BY <1>9, MergeAliasFlags
<1>10. CASE Merged
  BY <1>10, IdleFlags DEF Merged
<1>11. ASSUME NEW r \in Registries, Clear(r) PROVE FlagsInv'
  BY <1>11, ClearFlags
<1>12. QED
  BY <1>1, <1>2, <1>3, <1>4, <1>5, <1>6, <1>7, <1>8, <1>9, <1>10, <1>11 DEF Next

RegistryInv ==
    TablesInv /\ JobInv /\ FlagsInv /\ imported \subseteq Modules /\ factory \subseteq Registries

LEMMA RegistryInit ==
    ASSUME Init
    PROVE  RegistryInv
<1>1. Sound(EmptyRegistry, EmptyRegistry)
  BY DEF EmptyRegistry, Sound, OwnNames, OwnAliases, OwnOptions
<1>2. TablesInv
  BY <1>1 DEF Init, TablesInv
<1>3. FlagsInv
  <2>1. DOMAIN cut = Registries /\ \A r \in Registries : Names(r) = {}
    BY DEF Init, Names, EmptyRegistry
  <2> QED BY <2>1 DEF FlagsInv
<1>4. QED
  BY <1>2, <1>3 DEF Init, RegistryInv, JobInv

\* Whatever the program does to its registries.
LEMMA RegistryStep ==
    ASSUME RegistryInv, Next
    PROVE  RegistryInv' /\ Stable
<1>1. /\ TablesInv /\ JobInv /\ imported \subseteq Modules /\ factory \subseteq Registries
      /\ FlagsInv'
  BY RegistryFlags DEF RegistryInv
<1>2. (imported \subseteq Modules /\ factory \subseteq Registries)'
  <2>1. CASE imported' = imported \/ Loaded
    <3>1. Loaded => job.module \in Modules
      BY <1>1 DEF Loaded, JobInv, NoJob, MergeOK, Merges, ImportOK, Imports
    <3>2. imported' \subseteq Modules
      BY <1>1, <2>1, <3>1 DEF Loaded
    <3>3. ContextFactory => job.reg \in Registries
      <4>1. ContextFactory => ImportOK
        BY <1>1, AtItem DEF ContextFactory
      <4> QED BY <4>1 DEF ImportOK, Imports
    <3>4. \/ factory' = factory
          \/ ContextFactory
          \/ factory' \subseteq factory
      BY DEF Next, Load, StageArgument, StageOption, StageConfirm, StageDryRun, Raise, Register,
             GroupRegister, RegisterAliasPath, Loaded, RegisterPlugin, MergeCommand, MergeAlias,
             Merged, Clear
    <3> QED BY <1>1, <3>2, <3>3, <3>4 DEF ContextFactory, InUse
  <2>2. imported' = imported \/ Loaded
    BY DEF Next, Load, StageArgument, StageOption, StageConfirm, StageDryRun, ContextFactory,
           Raise, Register, GroupRegister, RegisterAliasPath, RegisterPlugin, MergeCommand,
           MergeAlias, Merged, Clear
  <2> QED BY <2>1, <2>2
<1> SUFFICES TablesInv' /\ Stable /\ JobInv'
  BY <1>1, <1>2 DEF RegistryInv
<1>3. ASSUME UNCHANGED <<commands, aliases>>, JobInv' PROVE TablesInv' /\ Stable /\ JobInv'
  BY <1>1, <1>3, SameTables
<1>4. ASSUME NEW m \in Modules, NEW r \in Registries, Load(m, r)
      PROVE  TablesInv' /\ Stable /\ JobInv'
  BY <1>1, <1>3, <1>4, LoadStep DEF Load
<1>5. CASE \/ StageArgument \/ StageOption \/ StageConfirm \/ StageDryRun
           \/ ContextFactory \/ Raise
  <2>1. JobInv'
    BY <1>1, <1>5, StagingSteps
  <2>2. UNCHANGED <<commands, aliases>>
    BY <1>5 DEF StageArgument, StageOption, StageConfirm, StageDryRun, ContextFactory, Raise
  <2> QED BY <2>1, <2>2, <1>3
<1>6. CASE Register \/ GroupRegister \/ RegisterAliasPath
  BY <1>1, <1>6, RegisterStep, GroupRegisterStep, RegisterAliasPathStep
<1>7. CASE Loaded \/ Merged
  BY <1>3, <1>7 DEF Loaded, Merged, JobInv
<1>8. ASSUME NEW q \in Registries, NEW r \in Registries, RegisterPlugin(q, r)
      PROVE  TablesInv' /\ Stable /\ JobInv'
  BY <1>1, <1>3, <1>8, PluginStep DEF RegisterPlugin
<1>9. CASE MergeCommand \/ MergeAlias
  BY <1>1, <1>9, MergeCommandStep, MergeAliasStep
<1>10. ASSUME NEW r \in Registries, Clear(r) PROVE TablesInv' /\ Stable /\ JobInv'
  BY <1>1, <1>10, ClearStep
<1>11. QED
  BY <1>4, <1>5, <1>6, <1>7, <1>8, <1>9, <1>10 DEF Next

-----------------------------------------------------------------------------
(* The registries, in a session.                                           *)

\* Serving a command line changes no registry.
LEMMA ServingKeepsRegistries ==
    ASSUME SessionNext, ~Define
    PROVE  UNCHANGED registry
  BY DEF SessionNext, Answer, Serve, Refuse, Become, Fault, ContextFails, OpenShell, RunBuiltin,
         Run, RunAsync, LeaveShell, ShellBuiltin, ShellDispatch, StripOption, Stripped,
         ParseNamed, ParsePositional, Parsed, PromptMissing, Prompted, ConfirmCommand, Execute,
         ContextRaises, HandlerReturns, HandlerRaises, Interrupted

LEMMA SameRegistries ==
    ASSUME RegistryInv, UNCHANGED registry
    PROVE  RegistryInv' /\ Stable
<1>1. /\ commands' = commands /\ aliases' = aliases /\ job' = job /\ imported' = imported
      /\ factory' = factory /\ cut' = cut
  BY DEF registry
<1>2. TablesInv' /\ Stable
  BY <1>1, SameTables DEF RegistryInv
<1>3. JobInv'
  BY <1>1 DEF RegistryInv, JobInv, ImportOK, MergeOK, Names, Aliases
<1>4. FlagsInv'
  <2>1. \A r \in Registries : \A n : \A o : Awaited(r, n, o) => Awaited(r, n, o)'
    BY <1>1 DEF Awaited, Linked, Promises, Way, Normal
  <2> QED BY <1>1, <2>1, SameTables, AwaitedCome DEF RegistryInv, Led
<1>5. QED
  BY <1>1, <1>2, <1>3, <1>4 DEF RegistryInv

LEMMA SessionKeepsRegistries ==
    ASSUME RegistryInv, [SessionNext]_vars
    PROVE  RegistryInv' /\ Stable
<1>1. CASE Define
  BY <1>1, RegistryStep DEF Define
<1>2. CASE SessionNext /\ ~Define
  BY <1>2, ServingKeepsRegistries, SameRegistries
<1>3. CASE UNCHANGED vars
  BY <1>3, SameRegistries DEF vars
<1>4. QED
  BY <1>1, <1>2, <1>3

\* The registries are sound in every state, and no step but clear() changes what
\* resolves.
LEMMA RegistriesSound == SessionSpec => []RegistryInv /\ [][Stable]_vars
<1>1. SessionInit => RegistryInv
  BY RegistryInit DEF SessionInit
<1>2. RegistryInv /\ [SessionNext]_vars => RegistryInv' /\ Stable
  BY SessionKeepsRegistries
<1>3. QED
  BY <1>1, <1>2, PTL DEF SessionSpec

LEMMA StableResolution ==
    ASSUME Stable
    PROVE  \A r \in Registries : \A path \in Names(r) \union Aliases(r) :
              \/ commands'[r] = EmptyRegistry
              \/ Known(r, path)' /\ Get(r, path)' = Get(r, path)
<1> SUFFICES ASSUME NEW r \in Registries, NEW path \in Names(r) \union Aliases(r),
                    commands'[r] # EmptyRegistry
             PROVE  Known(r, path)' /\ Get(r, path)' = Get(r, path)
  OBVIOUS
<1>1. Keeps(commands[r], aliases[r], commands'[r], aliases'[r])
  BY DEF Stable
<1>2. /\ path \in DOMAIN commands'[r] \/ Normal(path) \in DOMAIN aliases'[r]
      /\ LookUp(commands'[r], aliases'[r], path) = LookUp(commands[r], aliases[r], path)
  BY <1>1 DEF Keeps, Names, Aliases
<1>3. Normal(path)' = Normal(path)
  BY DEF Normal
<1>4. QED
  BY <1>2, <1>3 DEF LookUp, Known, Get, Names, Aliases

\* A registration, a group, a merge of a plugin, or one of them that fails halfway,
\* never changes what an accepted name or alias stands for.
THEOREM ResolutionKept == SessionSpec => ResolutionIsStable
<1>1. Stable => \A r \in Registries : \A path \in Names(r) \union Aliases(r) :
                   \/ commands'[r] = EmptyRegistry
                   \/ Known(r, path)' /\ Get(r, path)' = Get(r, path)
  BY StableResolution
<1>2. QED
  BY <1>1, RegistriesSound, PTL DEF ResolutionIsStable

LEMMA SoundFlagsWork ==
    ASSUME TablesInv, FlagsInv
    PROVE  PrintedFlagsWork
<1> SUFFICES ASSUME NEW r \in Registries
             PROVE  /\ \A a \in Aliases(r) :
                        /\ aliases[r][a] \in Names(r)
                        /\ PlainGroups => Get(r, a).name = aliases[r][a]
                    /\ \A n \in Names(r) : \A o \in Range(commands[r][n].options) :
                        IF Len(n) = 1 THEN Reaches(r, <<o>>, n)
                        ELSE \/ n \in cut[r]
                             \/ job # NoJob /\ job.reg = r
                             \/ \E k \in 0 .. Len(n) - 1 :
                                    Reaches(r, Append(SubSeq(n, 1, k), o), n)
  BY DEF PrintedFlagsWork
<1> DEFINE c == commands[r]
           l == aliases[r]
<1>1. OwnNames(c) /\ OwnAliases(c, l) /\ OwnOptions(c, l)
  BY DEF TablesInv, Sound
<1>2. ASSUME NEW a \in DOMAIN l
      PROVE  /\ a \in Keys /\ Normal(a) = a /\ l[a] \in DOMAIN c
             /\ PlainGroups => (a \in DOMAIN c => l[a] = a)
  BY <1>1, NormalKey DEF OwnAliases
<1>3. ASSUME NEW n \in DOMAIN c PROVE c[n].name = n /\ EntryOK(c[n])
  BY <1>1 DEF OwnNames
<1>4. ASSUME NEW a \in Aliases(r)
      PROVE  l[a] \in Names(r) /\ (PlainGroups => Get(r, a).name = l[a])
  BY <1>2, <1>3 DEF Get, Names, Aliases
<1>5. ASSUME NEW path, NEW n \in Names(r), Normal(path) \in Aliases(r), l[Normal(path)] = n
      PROVE  Reaches(r, path, n)
  BY <1>3, <1>5 DEF Reaches, Known, Get, Names
<1>6. ASSUME NEW n \in Names(r), Len(n) = 1, NEW o \in Range(c[n].options)
      PROVE  Reaches(r, <<o>>, n)
  <2>1. n \in DOMAIN c
    BY DEF Names
  <2>2. PICK i \in DOMAIN c[n].options : o = c[n].options[i]
    BY DEF Range
  <2>3. Normal(<<o>>) \in DOMAIN l /\ l[Normal(<<o>>)] = n
    BY <1>1, <1>6, <2>1, <2>2 DEF OwnOptions
  <2> QED BY <1>5, <2>3 DEF Aliases
<1>7. ASSUME NEW n \in Names(r), NEW o \in Range(c[n].options)
      PROVE  \/ n \in cut[r]
             \/ job # NoJob /\ job.reg = r
             \/ \E k \in 0 .. Len(n) - 1 : Reaches(r, Append(SubSeq(n, 1, k), o), n)
  <2>1. Led(r, n, o)
    BY DEF FlagsInv
  <2>2. CASE Aliased(r, n, o)
    <3>1. PICK k \in 0 .. Len(n) - 1 :
             Normal(Way(n, k, o)) \in Aliases(r) /\ l[Normal(Way(n, k, o))] = n
      BY <2>2 DEF Aliased
    <3>2. Reaches(r, Way(n, k, o), n)
      BY <1>5, <3>1
    <3> QED BY <3>2 DEF Way
  <2> QED BY <2>1, <2>2 DEF Led, Awaited
<1>8. QED
  BY <1>4, <1>6, <1>7

\* The flags that help prints for a command reach that command, those of a group
\* behind the words of the group, but for a command that is not yet, or was never,
\* given all of its aliases; no alias leads nowhere, and none is hidden behind another
\* command's name where groups are named without dashes.
THEOREM FlagsWork == SessionSpec => []PrintedFlagsWork
<1>1. RegistryInv => PrintedFlagsWork
  BY SoundFlagsWork DEF RegistryInv
<1>2. QED
  BY <1>1, RegistriesSound, PTL

-----------------------------------------------------------------------------
(* Which command a line resolves to.                                       *)

\* What is left of a line without its first n words.
LEMMA Dropped ==
    ASSUME NEW s \in Seq(Word), NEW n \in Nat
    PROVE  LET t == SubSeq(s, n + 1, Len(s)) IN
           /\ t \in Seq(Word) /\ Len(t) = IF n < Len(s) THEN Len(s) - n ELSE 0
           /\ \A i \in 1 .. Len(t) : t[i] = s[i + n] /\ i + n \in 1 .. Len(s)
<1>1. \A i \in n + 1 .. Len(s) : s[i] \in Word
  OBVIOUS
<1>2. n + 1 \in Int /\ Len(s) \in Int
  OBVIOUS
<1> DEFINE t == SubSeq(s, n + 1, Len(s))
<1>3. /\ t \in Seq(Word)
      /\ Len(t) = IF n + 1 <= Len(s) THEN Len(s) - (n + 1) + 1 ELSE 0
      /\ \A i \in 1 .. Len(s) - (n + 1) + 1 : t[i] = s[(n + 1) + i - 1]
  BY <1>1, <1>2, SubSeqProperties
<1> HIDE DEF t
<1>4. /\ Len(t) = IF n < Len(s) THEN Len(s) - n ELSE 0
      /\ \A i \in 1 .. Len(t) : i \in 1 .. Len(s) - (n + 1) + 1 /\ (n + 1) + i - 1 = i + n
      /\ \A i \in 1 .. Len(t) : i + n \in 1 .. Len(s)
  BY <1>3
<1>5. QED
  BY <1>3, <1>4 DEF t

LEMMA ContextBounded ==
    ASSUME NEW r, NEW raw \in Seq(Word)
    PROVE  ContextLength(r, raw) \in Nat /\ StripContext(r, raw) \in Seq(Word)
<1> DEFINE ends == {0} \union {i + Width(raw, i) - 1 : i \in ContextOptions(r, raw)}
<1>1. Len(raw) \in Nat /\ Len(raw) + 1 \in Nat /\ DOMAIN raw = 1 .. Len(raw)
  OBVIOUS
<1>2. ContextOptions(r, raw) \subseteq 1 .. Len(raw)
  BY <1>1 DEF ContextOptions
<1>3. \A i \in ContextOptions(r, raw) : i + Width(raw, i) - 1 \in 0 .. Len(raw) + 1
  BY <1>1, <1>2 DEF Width
<1>4. ends \subseteq 0 .. Len(raw) + 1 /\ 0 \in ends
  BY <1>1, <1>3
<1>5. ContextLength(r, raw) = CHOOSE n \in ends : \A k \in ends : k <= n
  BY DEF ContextLength
<1> HIDE DEF ends
<1>6. \E n \in ends : \A k \in ends : k <= n
  BY <1>1, <1>4, GreatestExists
<1>7. ContextLength(r, raw) \in ends
  BY <1>5, <1>6
<1>8. ContextLength(r, raw) \in Nat
  <2>1. 0 .. Len(raw) + 1 \subseteq Nat
    BY <1>1
  <2> QED BY <1>4, <1>7, <2>1
<1>9. QED
  BY <1>8, Dropped DEF StripContext

\* What a line resolves to is an entry of the registry.
LEMMA ResolvedIsSound ==
    ASSUME TablesInv, NEW r \in Registries, NEW raw \in Seq(Word), Prefixed(r, raw) # {}
    PROVE  EntryOK(Resolved(r, raw)) /\ Rest(r, raw) \in Seq(Word)
<1> DEFINE n == CommandLength(r, raw)
           path == SubSeq(raw, 1, n)
<1>1. n \in Prefixed(r, raw)
  <2>1. Prefixed(r, raw) \subseteq 0 .. Len(raw) /\ Len(raw) \in Nat
    BY DEF Prefixed
  <2>2. \E m \in Prefixed(r, raw) : \A k \in Prefixed(r, raw) : k <= m
    BY <2>1, GreatestExists
  <2> QED BY <2>2 DEF CommandLength
<1>2. n \in Nat /\ Known(r, path)
  BY <1>1 DEF Prefixed
<1>3. /\ \A m \in Names(r) : EntryOK(commands[r][m])
      /\ \A a \in Aliases(r) : aliases[r][a] \in Names(r)
  BY DEF TablesInv, Sound, OwnNames, OwnAliases, Names, Aliases
<1> HIDE DEF n, path
<1>4. EntryOK(Get(r, path))
  BY <1>2, <1>3 DEF Known, Get
<1>5. QED
  BY <1>2, <1>4, Dropped DEF Resolved, Rest, n, path

-----------------------------------------------------------------------------
(* What has been understood of a command line: the first p of words, parsed  *)
(* into values, with the next argument for a word without a flag.            *)

SoundEntries == {e \in Entries : ArgumentsOK(e.arguments)}
Values == Word \cup {Yes, No, Default}
Dictionaries == UNION {[S -> Values] : S \in SUBSET Labels}

NameOf(entry, k) == entry.arguments[k].name

Suits(a, v) ==
    \/ a.kind = "bool" /\ v \in {Yes, No}
    \/ a.kind # "bool" /\ Coerces(a, v)
    \/ ~a.required /\ v = Default

\* The values are those of arguments, and of their types.
Fitting(entry, values) ==
    /\ \A k \in DOMAIN entry.arguments :
        NameOf(entry, k) \in DOMAIN values => Suits(entry.arguments[k], values[NameOf(entry, k)])
    /\ \A n \in DOMAIN values : \E k \in DOMAIN entry.arguments : NameOf(entry, k) = n

\* Words that are flags, flags that take a value, and words that are neither.
Named(entry, words) == {i \in DOMAIN words : words[i] \in NamedFlags(entry)}
Valued(entry, words) ==
    {i \in Named(entry, words) : Flagged(entry, words[i]).kind # "bool"}
Loose(entry, words) ==
    DOMAIN words \ (Named(entry, words) \cup {i + 1 : i \in Valued(entry, words)})

FlagsTold(entry, words, values, p) ==
    \A i \in Named(entry, words) : i <= p =>
        LET n == Flagged(entry, words[i]).name IN
        /\ n \in DOMAIN values
        /\ values[n] = IF i \in Valued(entry, words) THEN words[i + 1] ELSE Yes
        /\ i \in Valued(entry, words) => i + 1 <= p

\* f says which argument each loose word is for.
Placed(entry, words, values, p, next, f) ==
    /\ f \in [{i \in Loose(entry, words) : i <= p} -> Pool(entry)]
    /\ \A i, j \in DOMAIN f : i < j => f[i] < f[j]
    /\ \A i \in DOMAIN f :
        /\ f[i] < next /\ NameOf(entry, f[i]) \in DOMAIN values
        /\ values[NameOf(entry, f[i])] = words[i]

\* The k-th argument was given on the line.
Given(entry, words, p, f, k) ==
    \/ \E i \in Named(entry, words) : i <= p /\ Flagged(entry, words[i]) = entry.arguments[k]
    \/ \E i \in DOMAIN f : f[i] = k

Understood(entry, words, values, p, next) ==
    /\ FlagsTold(entry, words, values, p)
    /\ \E f : /\ Placed(entry, words, values, p, next, f)
              /\ \A k \in DOMAIN entry.arguments :
                    NameOf(entry, k) \in DOMAIN values => Given(entry, words, p, f, k)

\* values with v for n, which may have had it already.
Gains(new, values, n, v) ==
    /\ DOMAIN new = DOMAIN values \cup {n} /\ new[n] = v
    /\ \A m \in DOMAIN values : new[m] = values[m]

LEMMA SoundArguments ==
    ASSUME NEW entry \in SoundEntries
    PROVE  /\ entry.arguments \in Seq(ArgumentRecord)
           /\ DOMAIN entry.arguments = 1 .. Len(entry.arguments)
           /\ Len(entry.arguments) \in Nat
           /\ \A k \in DOMAIN entry.arguments :
                /\ entry.arguments[k] \in ArgumentRecord /\ NameOf(entry, k) \in Labels
                /\ entry.arguments[k].kind = "bool" => ~entry.arguments[k].required
           /\ \A k, j \in DOMAIN entry.arguments : NameOf(entry, k) = NameOf(entry, j) => k = j
<1>1. ArgumentsOK(entry.arguments)
  BY DEF SoundEntries
<1>2. entry.arguments \in Seq(ArgumentRecord) /\ Distinct(entry.arguments)
  BY <1>1 DEF ArgumentsOK
<1>3. \A k \in DOMAIN entry.arguments : entry.arguments[k] \in ArgumentRecord
  BY <1>2
<1>4. QED
  BY <1>1, <1>2, <1>3 DEF ArgumentsOK, ArgumentRecord, Distinct, NameOf

\* A flag names one argument.
LEMMA FlagNamesOne ==
    ASSUME NEW entry \in SoundEntries, NEW word \in NamedFlags(entry)
    PROVE  \E k \in DOMAIN entry.arguments : Flagged(entry, word) = entry.arguments[k]
<1>1. PICK b \in Range(entry.arguments) : word = Long(b.name)
  BY DEF NamedFlags
<1>2. Flagged(entry, word) \in Range(entry.arguments)
  BY <1>1 DEF Flagged
<1>3. QED
  BY <1>2 DEF Range

LEMMA ValueGiven ==
    ASSUME NEW entry \in SoundEntries, NEW values \in Dictionaries, Fitting(entry, values),
           NEW k \in DOMAIN entry.arguments, NEW v \in Values, Suits(entry.arguments[k], v),
           NEW new, new = (IF NameOf(entry, k) \in DOMAIN values THEN values
                           ELSE With(values, {NameOf(entry, k)}, v)),
           NameOf(entry, k) \in DOMAIN values => values[NameOf(entry, k)] = v
    PROVE  new \in Dictionaries /\ Fitting(entry, new) /\ Gains(new, values, NameOf(entry, k), v)
<1> DEFINE n == NameOf(entry, k)
<1>1. CASE n \in DOMAIN values
  BY <1>1 DEF Gains
<1>2. CASE n \notin DOMAIN values
  <2>1. /\ DOMAIN new = DOMAIN values \cup {n} /\ new[n] = v
        /\ \A m \in DOMAIN values : m # n /\ new[m] = values[m]
    BY <1>2 DEF With
  <2>2. PICK S \in SUBSET Labels : values \in [S -> Values]
    BY DEF Dictionaries
  <2>3. n \in Labels
    BY SoundArguments
  <2>4. new \in [S \cup {n} -> Values] /\ S \cup {n} \in SUBSET Labels
    BY <1>2, <2>2, <2>3 DEF With
  <2>5. new \in Dictionaries
    BY <2>4 DEF Dictionaries
  <2>6. ASSUME NEW j \in DOMAIN entry.arguments, NameOf(entry, j) \in DOMAIN new
        PROVE  Suits(entry.arguments[j], new[NameOf(entry, j)])
    <3>1. CASE NameOf(entry, j) = n
      <4>1. j = k
        BY <3>1, SoundArguments
      <4> QED BY <4>1, <2>1
    <3>2. CASE NameOf(entry, j) # n
      BY <2>1, <2>6, <3>2 DEF Fitting
    <3> QED BY <3>1, <3>2
  <2>7. Fitting(entry, new)
    BY <2>1, <2>6 DEF Fitting
  <2> QED BY <2>1, <2>5, <2>7 DEF Gains
<1>3. QED
  BY <1>1, <1>2

\* A flag, alone or with its value, is understood.
LEMMA FlagUnderstood ==
    ASSUME NEW entry \in SoundEntries, NEW words \in Seq(Word), NEW values, NEW new,
           NEW p \in Nat, NEW n \in {1, 2}, NEW next,
           p + 1 \in Named(entry, words), p + n <= Len(words),
           n = 2 <=> p + 1 \in Valued(entry, words),
           n = 2 => p + 2 \notin Named(entry, words),
           Understood(entry, words, values, p, next),
           Gains(new, values, Flagged(entry, words[p + 1]).name,
                 IF n = 2 THEN words[p + 2] ELSE Yes)
    PROVE  Understood(entry, words, new, p + n, next)
<1> DEFINE a == Flagged(entry, words[p + 1])
<1>1. PICK f : /\ Placed(entry, words, values, p, next, f)
               /\ \A k \in DOMAIN entry.arguments :
                    NameOf(entry, k) \in DOMAIN values => Given(entry, words, p, f, k)
  BY DEF Understood
<1>2. /\ DOMAIN new = DOMAIN values \cup {a.name}
      /\ new[a.name] = IF n = 2 THEN words[p + 2] ELSE Yes
      /\ \A m \in DOMAIN values : new[m] = values[m]
  BY DEF Gains
<1>3. DOMAIN words = 1 .. Len(words) /\ Len(words) \in Nat
  OBVIOUS
<1>4. \A i \in Named(entry, words) : i \in Nat
  BY <1>3 DEF Named
<1>5. \A i \in Loose(entry, words) : i \in Nat
  BY <1>3 DEF Loose
<1>6. \A i \in Named(entry, words) : i <= p + n => i <= p \/ i = p + 1
  BY <1>4
<1>7. \A i \in Loose(entry, words) : i <= p + n <=> i <= p
  <2>1. p + 1 \notin Loose(entry, words) /\ (n = 2 => p + 2 \notin Loose(entry, words))
    BY DEF Loose
  <2> QED BY <1>5, <2>1
<1>8. FlagsTold(entry, words, new, p + n)
  <2> SUFFICES ASSUME NEW i \in Named(entry, words), i <= p + n
               PROVE  LET m == Flagged(entry, words[i]).name IN
                      /\ m \in DOMAIN new
                      /\ new[m] = IF i \in Valued(entry, words) THEN words[i + 1] ELSE Yes
                      /\ i \in Valued(entry, words) => i + 1 <= p + n
    BY DEF FlagsTold
  <2>1. CASE i <= p
    BY <1>2, <1>4, <2>1 DEF Understood, FlagsTold
  <2>2. CASE i = p + 1
    BY <1>2, <2>2
  <2> QED BY <1>6, <2>1, <2>2
<1>9. Placed(entry, words, new, p + n, next, f)
  <2>1. {i \in Loose(entry, words) : i <= p + n} = {i \in Loose(entry, words) : i <= p}
    BY <1>7
  <2> QED BY <1>1, <1>2, <2>1 DEF Placed
<1>10. ASSUME NEW k \in DOMAIN entry.arguments, NameOf(entry, k) \in DOMAIN new
       PROVE  Given(entry, words, p + n, f, k)
  <2>1. CASE NameOf(entry, k) \in DOMAIN values
    <3>1. Given(entry, words, p, f, k)
      BY <1>1, <2>1
    <3> QED BY <3>1, <1>4 DEF Given
  <2>2. CASE NameOf(entry, k) = a.name
    <3>1. words[p + 1] \in NamedFlags(entry)
      BY DEF Named
    <3>2. PICK j \in DOMAIN entry.arguments : a = entry.arguments[j]
      BY <3>1, FlagNamesOne
    <3>3. j = k
      BY <2>2, <3>2, SoundArguments DEF NameOf
    <3> QED BY <3>2, <3>3 DEF Given
  <2> QED BY <1>2, <1>10, <2>1, <2>2
<1>11. QED
  BY <1>8, <1>9, <1>10 DEF Understood

\* A word without a flag is understood as the next open argument.
LEMMA WordUnderstood ==
    ASSUME NEW entry \in SoundEntries, NEW words \in Seq(Word), NEW values, NEW new,
           NEW p \in Nat, NEW next \in Nat, NEW k \in Pool(entry), next <= k,
           NameOf(entry, k) \notin DOMAIN values,
           p + 1 \in DOMAIN words, p + 1 \notin Named(entry, words),
           Understood(entry, words, values, p, next),
           Gains(new, values, NameOf(entry, k), words[p + 1])
    PROVE  Understood(entry, words, new, p + 1, k + 1)
<1>1. PICK f : /\ Placed(entry, words, values, p, next, f)
               /\ \A j \in DOMAIN entry.arguments :
                    NameOf(entry, j) \in DOMAIN values => Given(entry, words, p, f, j)
  BY DEF Understood
<1>2. /\ DOMAIN new = DOMAIN values \cup {NameOf(entry, k)} /\ new[NameOf(entry, k)] = words[p + 1]
      /\ \A m \in DOMAIN values : new[m] = values[m]
  BY DEF Gains
<1>3. DOMAIN words = 1 .. Len(words) /\ Len(words) \in Nat
  OBVIOUS
<1>4. /\ \A i \in Named(entry, words) : i \in Nat /\ (i <= p + 1 => i <= p)
      /\ \A i \in Loose(entry, words) : i \in Nat
  BY <1>3 DEF Named, Loose
<1>5. /\ Pool(entry) \subseteq DOMAIN entry.arguments /\ \A j \in Pool(entry) : j \in Nat
      /\ k \in Nat /\ k \in DOMAIN entry.arguments
  BY SoundArguments DEF Pool
<1>6. p + 1 \in Loose(entry, words)
  <2>1. \A i \in Valued(entry, words) : i + 1 # p + 1
    <3>1. SUFFICES ASSUME p \in Valued(entry, words) PROVE FALSE
      BY <1>4 DEF Valued
    <3>2. p \in Named(entry, words)
      BY <3>1 DEF Valued
    <3> QED BY <3>1, <3>2 DEF Understood, FlagsTold
  <2> QED BY <2>1 DEF Loose
<1> DEFINE S == {i \in Loose(entry, words) : i <= p}
           T == {i \in Loose(entry, words) : i <= p + 1}
           g == [i \in T |-> IF i = p + 1 THEN k ELSE f[i]]
<1>7. \A i \in T : i = p + 1 \/ i \in S
  BY <1>4
<1>8. /\ f \in [S -> Pool(entry)]
      /\ \A i, j \in S : i < j => f[i] < f[j]
      /\ \A i \in S : /\ f[i] < next /\ NameOf(entry, f[i]) \in DOMAIN values
                      /\ values[NameOf(entry, f[i])] = words[i]
  BY <1>1 DEF Placed
<1>9. /\ g \in [T -> Pool(entry)] /\ g[p + 1] = k /\ p + 1 \in T
      /\ \A i \in S : g[i] = f[i] /\ i \in T /\ i # p + 1 /\ i < p + 1
      /\ \A i \in S : g[i] \in Nat
  <2>1. \A i \in S : i \in T /\ i # p + 1 /\ i < p + 1
    BY <1>4
  <2>2. p + 1 \in T
    BY <1>6
  <2>3. \A i \in S : f[i] \in Pool(entry) /\ f[i] \in Nat
    BY <1>5, <1>8
  <2> HIDE DEF S, T
  <2> QED BY <1>7, <2>1, <2>2, <2>3
<1>10. DOMAIN g = T /\ DOMAIN f = S
  BY <1>8
<1> HIDE DEF g, T
<1>11. ASSUME NEW i \in T, NEW j \in T, i < j PROVE g[i] < g[j]
  <2>1. i \in S
    <3>1. i \in Nat /\ j \in Nat /\ j <= p + 1
      BY <1>4 DEF T
    <3> QED BY <3>1, <1>7, <1>11
  <2>2. CASE j = p + 1
    <3>1. g[i] = f[i] /\ g[j] = k /\ f[i] < next /\ f[i] \in Nat
      BY <2>1, <2>2, <1>8, <1>9
    <3> QED BY <3>1, <1>5
  <2>3. CASE j \in S
    BY <2>1, <2>3, <1>8, <1>9, <1>11
  <2> QED BY <2>2, <2>3, <1>7
<1>12. ASSUME NEW i \in T
       PROVE  /\ g[i] < k + 1 /\ NameOf(entry, g[i]) \in DOMAIN new
              /\ new[NameOf(entry, g[i])] = words[i]
  <2>1. CASE i = p + 1
    BY <2>1, <1>2, <1>5, <1>9
  <2>2. CASE i \in S
    <3>1. g[i] = f[i] /\ g[i] \in Nat /\ f[i] < next
      BY <2>2, <1>8, <1>9
    <3>2. g[i] < k + 1
      BY <3>1, <1>5
    <3> HIDE DEF S
    <3> QED BY <2>2, <3>1, <3>2, <1>2, <1>8
  <2> QED BY <2>1, <2>2, <1>7
<1>13. Placed(entry, words, new, p + 1, k + 1, g)
  BY <1>9, <1>10, <1>11, <1>12 DEF Placed, T
<1>14. FlagsTold(entry, words, new, p + 1)
  <2> SUFFICES ASSUME NEW i \in Named(entry, words), i <= p + 1
               PROVE  LET m == Flagged(entry, words[i]).name IN
                      /\ m \in DOMAIN new
                      /\ new[m] = IF i \in Valued(entry, words) THEN words[i + 1] ELSE Yes
                      /\ i \in Valued(entry, words) => i + 1 <= p + 1
    BY DEF FlagsTold
  <2>1. i <= p /\ i \in Nat
    BY <1>4
  <2> QED BY <2>1, <1>2 DEF Understood, FlagsTold
<1>15. ASSUME NEW j \in DOMAIN entry.arguments, NameOf(entry, j) \in DOMAIN new
       PROVE  Given(entry, words, p + 1, g, j)
  <2>1. CASE NameOf(entry, j) \in DOMAIN values
    <3>1. Given(entry, words, p, f, j)
      BY <1>1, <2>1
    <3>2. CASE \E i \in DOMAIN f : f[i] = j
      <4>1. \E i \in T : g[i] = j
        BY <3>2, <1>9, <1>10
      <4> QED BY <4>1, <1>10 DEF Given
    <3>3. CASE \E i \in Named(entry, words) :
                  i <= p /\ Flagged(entry, words[i]) = entry.arguments[j]
      <4>1. PICK i \in Named(entry, words) :
                  i <= p /\ Flagged(entry, words[i]) = entry.arguments[j]
        BY <3>3
      <4>2. i <= p + 1
        BY <4>1, <1>4
      <4> QED BY <4>1, <4>2 DEF Given
    <3> QED BY <3>1, <3>2, <3>3 DEF Given
  <2>2. CASE NameOf(entry, j) = NameOf(entry, k)
    <3>1. j = k
      BY <2>2, <1>5, SoundArguments
    <3> QED BY <3>1, <1>9, <1>10 DEF Given
  <2> QED BY <2>1, <2>2, <1>2, <1>15
<1>16. QED
  BY <1>13, <1>14, <1>15 DEF Understood

-----------------------------------------------------------------------------
(* The command line being served.                                          *)

\* Every argument was given on the line, or is asked for, or has its default.
Told(entry, words, values, next) ==
    /\ FlagsTold(entry, words, values, Len(words))
    /\ \E f : /\ Placed(entry, words, values, Len(words), next, f)
              /\ \A k \in DOMAIN entry.arguments :
                    \/ Given(entry, words, Len(words), f, k)
                    \/ entry.arguments[k].required /\ entry.arguments[k].prompt
                    \/ /\ ~entry.arguments[k].required
                       /\ NameOf(entry, k) \in DOMAIN values
                       /\ values[NameOf(entry, k)] \in {Default, No}

Phases == {"strip", "parse", "prompt", "confirm", "call", "running"}

Calls == [phase : Phases, mode : {"run", "async", "shell"}, entry : SoundEntries,
          context : BOOLEAN, typed : Seq(Word), words : Seq(Word), kept : Seq(Word),
          forced : BOOLEAN, answered : BOOLEAN, tty : BOOLEAN, next : Nat,
          values : Dictionaries]

\* --force counts only as typed, for a command that has no such argument.
ForceOK(c) == c.forced => TakesForce(c.entry) /\ Long("force") \in Range(c.typed)

StripOK(c) ==
    c.phase = "strip" => Range(c.words) \subseteq Range(c.typed) /\ c.values = <<>> /\ c.next = 1

ParseOK(c) ==
    c.phase = "parse" =>
        /\ Fitting(c.entry, c.values)
        /\ \E p \in 0 .. Len(c.kept) :
            /\ c.words = SubSeq(c.kept, p + 1, Len(c.kept))
            /\ Understood(c.entry, c.kept, c.values, p, c.next)

\* What is still without a value will be asked for.
PromptOK(c) ==
    c.phase \in {"prompt", "confirm", "call", "running"} =>
        /\ Fitting(c.entry, c.values)
        /\ Told(c.entry, c.kept, c.values, c.next)
        /\ \A k \in DOMAIN c.entry.arguments :
            \/ NameOf(c.entry, k) \in DOMAIN c.values
            \/ c.entry.arguments[k].required /\ c.entry.arguments[k].prompt

CompleteOK(c) ==
    c.phase \in {"confirm", "call", "running"} =>
        \A k \in DOMAIN c.entry.arguments : NameOf(c.entry, k) \in DOMAIN c.values

AgreedOK(c) == c.phase \in {"call", "running"} => ~c.entry.confirm \/ c.forced \/ c.answered

CallOK(c) ==
    c \in Calls /\ ForceOK(c) /\ StripOK(c) /\ ParseOK(c) /\ PromptOK(c) /\ CompleteOK(c)
    /\ AgreedOK(c)

CallInv == call = NoCall \/ CallOK(call)

ShellInv ==
    \/ shell = NoShell
    \/ shell \in [open : {TRUE}, reg : Registries, context : BOOLEAN] /\ job = NoJob

SessionInv == RegistryInv /\ CallInv /\ ShellInv /\ last \in Outcomes

LEMMA BusyCall ==
    ASSUME CallInv, NEW phase \in Phases, Busy(phase)
    PROVE  CallOK(call) /\ call \in Calls /\ call.phase = phase /\ call.entry \in SoundEntries
<1>1. phase # "none"
  BY DEF Phases
<1>2. call # NoCall
  BY <1>1 DEF Busy, NoCall
<1>3. CallOK(call)
  BY <1>2 DEF CallInv
<1>4. QED
  BY <1>3 DEF CallOK, Calls, Busy

LEMMA NoValues == <<>> \in Dictionaries /\ DOMAIN <<>> = {} /\ <<>> \in Seq(Word)
<1>1. <<>> = [x \in {} |-> 0]
  OBVIOUS
<1>2. <<>> \in [{} -> Values] /\ {} \in SUBSET Labels
  BY <1>1
<1>3. QED
  BY <1>2 DEF Dictionaries

LEMMA ServeStarts ==
    ASSUME NEW mode \in {"run", "async", "shell"}, NEW context \in BOOLEAN, NEW entry, EntryOK(entry),
           NEW words \in Seq(Word), Serve(mode, context, entry, words)
    PROVE  CallOK(call')
<1>1. entry \in SoundEntries
  BY DEF SoundEntries, EntryOK
<1>2. call' = [phase |-> "strip", mode |-> mode, entry |-> entry, context |-> context,
                typed |-> words, words |-> words, kept |-> <<>>, forced |-> FALSE,
                answered |-> FALSE, tty |-> FALSE, next |-> 1, values |-> <<>>]
  BY DEF Serve
<1>3. "strip" \in Phases
  BY DEF Phases
<1>4. call' \in Calls
  BY <1>1, <1>2, <1>3, NoValues DEF Calls
<1>5. /\ call'.phase = "strip" /\ call'.forced = FALSE /\ call'.words = call'.typed
      /\ call'.values = <<>> /\ call'.next = 1
  BY <1>2
<1>6. QED
  BY <1>4, <1>5 DEF CallOK, ForceOK, StripOK, ParseOK, PromptOK, CompleteOK, AgreedOK

\* The steps that begin to serve a line.
LEMMA LineServed ==
    ASSUME RegistryInv, NEW r \in Registries,
           NEW raw \in Seq(Word), Prefixed(r, raw) # {}, NEW mode \in {"run", "async", "shell"},
           NEW context \in BOOLEAN, Serve(mode, context, Resolved(r, raw), Rest(r, raw))
    PROVE  CallOK(call') /\ UNCHANGED shell /\ last' = "none"
<1>1. EntryOK(Resolved(r, raw)) /\ Rest(r, raw) \in Seq(Word)
  BY ResolvedIsSound DEF RegistryInv
<1>2. CallOK(call')
  BY <1>1, ServeStarts
<1>3. QED
  BY <1>2 DEF Serve

LEMMA Stays ==
    ASSUME SessionInv, NEW outcome \in Outcomes, Answer(outcome)
    PROVE  CallInv' /\ ShellInv' /\ last' \in Outcomes
  BY DEF SessionInv, Answer, CallInv, ShellInv, CallOK, registry

ServedWell == CallInv' /\ ShellInv' /\ last' \in Outcomes

LEMMA OutcomesAre ==
    /\ "none" \in Outcomes /\ "shown" \in Outcomes /\ "exit 2" \in Outcomes
    /\ "raised" \in Outcomes /\ "failed" \in Outcomes /\ "returned" \in Outcomes
  BY DEF Outcomes

LEMMA LineStarted ==
    ASSUME SessionInv, NEW r \in Registries,
           NEW raw \in Seq(Word), Prefixed(r, raw) # {}, NEW mode \in {"run", "async", "shell"},
           NEW context \in BOOLEAN, Serve(mode, context, Resolved(r, raw), Rest(r, raw))
    PROVE  ServedWell
<1>1. CallOK(call') /\ UNCHANGED shell /\ last' = "none"
  BY LineServed DEF SessionInv
<1>2. job' = job
  BY DEF Serve, registry
<1>3. ShellInv'
  BY <1>1, <1>2 DEF SessionInv, ShellInv
<1>4. QED
  BY <1>1, <1>3, OutcomesAre DEF ServedWell, CallInv

LEMMA BeginStep ==
    ASSUME SessionInv, NEW r \in Registries,
           ContextFails(r) \/ OpenShell(r) \/ RunBuiltin(r) \/ Run(r) \/ RunAsync(r)
    PROVE  ServedWell
<1>1. ASSUME NEW outcome \in Outcomes, Answer(outcome) PROVE ServedWell
  BY <1>1, Stays DEF ServedWell
<1>2. ASSUME NEW raw \in Lines PROVE StripContext(r, raw) \in Seq(Word)
  BY SessionAssumption, ContextBounded
<1>3. (r \in factory) \in BOOLEAN
  OBVIOUS
<1>4. CASE ContextFails(r)
  <2>1. Answer("raised")
    BY <1>4 DEF ContextFails
  <2> QED BY <2>1, <1>1, OutcomesAre
<1>5. CASE OpenShell(r)
  <2>1. CASE Answer("raised")
    BY <2>1, <1>1, OutcomesAre
  <2>2. CASE ~Answer("raised")
    <3>1. /\ shell' = Opened(r) /\ last' = "shown" /\ call' = call /\ job' = NoJob
          /\ call = NoCall
      BY <1>5, <2>2 DEF OpenShell, registry, Free
    <3>2. ShellInv'
      BY <3>1, <1>3 DEF ShellInv, Opened
    <3>3. CallInv'
      BY <3>1 DEF CallInv
    <3> QED BY <3>1, <3>2, <3>3, OutcomesAre DEF ServedWell
  <2> QED BY <2>1, <2>2
<1>6. CASE RunBuiltin(r)
  <2>1. Answer("shown") \/ Answer("exit 2")
    BY <1>6 DEF RunBuiltin
  <2> QED BY <2>1, <1>1, OutcomesAre
<1>7. CASE Run(r)
  <2>1. PICK raw \in Lines :
          LET words == StripContext(r, raw) IN
          IF Prefixed(r, words) = {} THEN Answer("exit 2")
          ELSE IF AsksHelp(Rest(r, words)) THEN Answer("shown")
          ELSE Serve("run", r \in factory, Resolved(r, words), Rest(r, words))
    BY <1>7 DEF Run
  <2> DEFINE words == StripContext(r, raw)
  <2>2. \/ Answer("exit 2") \/ Answer("shown")
        \/ /\ Prefixed(r, words) # {}
           /\ Serve("run", r \in factory, Resolved(r, words), Rest(r, words))
    BY <2>1
  <2>3. words \in Seq(Word)
    BY <1>2
  <2> HIDE DEF words
  <2> QED BY <2>2, <2>3, <1>1, <1>3, OutcomesAre, LineStarted
<1>8. CASE RunAsync(r)
  <2>1. PICK raw \in Lines :
          LET words == StripContext(r, raw) IN
          \/ Answer("raised") \/ Answer("shown")
          \/ /\ Prefixed(r, words) # {}
             /\ Serve("async", r \in factory, Resolved(r, words), Rest(r, words))
    BY <1>8 DEF RunAsync
  <2> DEFINE words == StripContext(r, raw)
  <2>2. \/ Answer("raised") \/ Answer("shown")
        \/ /\ Prefixed(r, words) # {}
           /\ Serve("async", r \in factory, Resolved(r, words), Rest(r, words))
    BY <2>1
  <2>3. words \in Seq(Word)
    BY <1>2
  <2> HIDE DEF words
  <2> QED BY <2>2, <2>3, <1>1, <1>3, OutcomesAre, LineStarted
<1>9. QED
  BY <1>4, <1>5, <1>6, <1>7, <1>8

LEMMA ShellStep ==
    ASSUME SessionInv, LeaveShell \/ ShellBuiltin \/ ShellDispatch
    PROVE  ServedWell
<1>1. ASSUME NEW outcome \in Outcomes, Answer(outcome) PROVE ServedWell
  BY <1>1, Stays DEF ServedWell
<1>2. CASE LeaveShell
  <2>1. shell' = NoShell /\ last' = "none" /\ call' = call /\ call = NoCall
    BY <1>2 DEF LeaveShell, Prompting
  <2>2. ShellInv'
    BY <2>1 DEF ShellInv
  <2>3. CallInv'
    BY <2>1 DEF CallInv
  <2> QED BY <2>1, <2>2, <2>3, OutcomesAre DEF ServedWell
<1>3. CASE ShellBuiltin
  BY <1>1, <1>3, OutcomesAre DEF ShellBuiltin
<1>4. CASE ShellDispatch
  <2>1. PICK raw \in Lines :
          IF Prefixed(shell.reg, raw) = {} THEN Answer("shown")
          ELSE Serve("shell", shell.context, Resolved(shell.reg, raw), Rest(shell.reg, raw))
    BY <1>4 DEF ShellDispatch
  <2>2. shell.reg \in Registries /\ shell.context \in BOOLEAN
    <3>1. shell # NoShell
      BY <1>4 DEF NoShell, ShellDispatch, Prompting
    <3>2. shell \in [open : {TRUE}, reg : Registries, context : BOOLEAN]
      BY <3>1 DEF SessionInv, ShellInv
    <3> QED BY <3>2
  <2>3. raw \in Seq(Word)
    BY SessionAssumption
  <2> QED BY <2>1, <2>2, <2>3, <1>1, OutcomesAre, LineStarted
<1>5. QED
  BY <1>2, <1>3, <1>4

-----------------------------------------------------------------------------
(* The steps of the loop that serves a line.                               *)

LEMMA GoesOnServing ==
    ASSUME SessionInv, NEW c, Become(c), CallOK(call')
    PROVE  ServedWell
<1>1. shell' = shell /\ job' = job /\ last' = last
  BY DEF Become, registry
<1>2. ShellInv'
  BY <1>1 DEF SessionInv, ShellInv
<1>3. CallInv'
  BY DEF CallInv
<1>4. QED
  BY <1>1, <1>2, <1>3 DEF ServedWell, SessionInv

LEMMA Ends ==
    ASSUME SessionInv, call' = NoCall, last' \in Outcomes, UNCHANGED <<registry, shell>>
    PROVE  ServedWell
<1>1. shell' = shell /\ job' = job
  BY DEF registry
<1>2. ShellInv'
  BY <1>1 DEF SessionInv, ShellInv
<1>3. CallInv'
  BY DEF CallInv
<1>4. QED
  BY <1>2, <1>3 DEF ServedWell

LEMMA Refused ==
    ASSUME SessionInv, Refuse \/ Fault
    PROVE  ServedWell
<1>1. /\ call' = NoCall /\ UNCHANGED <<registry, shell>>
      /\ last' = "failed" \/ last' = "exit 2" \/ last' = "raised"
  BY DEF Refuse, Fault
<1>2. QED
  BY <1>1, Ends, OutcomesAre

LEMMA DroppedRange ==
    ASSUME NEW s \in Seq(Word), NEW n \in Nat
    PROVE  LET t == SubSeq(s, n + 1, Len(s)) IN
           t \in Seq(Word) /\ Range(t) \subseteq Range(s)
<1> DEFINE t == SubSeq(s, n + 1, Len(s))
<1>1. /\ t \in Seq(Word) /\ \A i \in 1 .. Len(t) : t[i] = s[i + n] /\ i + n \in 1 .. Len(s)
  BY Dropped
<1> HIDE DEF t
<1>2. QED
  BY <1>1 DEF Range, t

LEMMA StillStripping ==
    ASSUME SessionInv, Busy("strip"), NEW w \in Seq(Word), Range(w) \subseteq Range(call.words),
           NEW k \in Seq(Word), NEW b \in BOOLEAN,
           b => call.forced \/ (TakesForce(call.entry) /\ Long("force") \in Range(call.typed)),
           Become([call EXCEPT !.words = w, !.kept = k, !.forced = b])
    PROVE  ServedWell
<1>1. CallOK(call) /\ call \in Calls /\ call.phase = "strip"
  BY BusyCall DEF SessionInv, Phases
<1>2. call' = [call EXCEPT !.words = w, !.kept = k, !.forced = b]
  BY DEF Become
<1>3. /\ call' \in Calls /\ call'.phase = "strip" /\ call'.words = w /\ call'.forced = b
      /\ call'.entry = call.entry /\ call'.typed = call.typed /\ call'.values = call.values
      /\ call'.next = call.next
  BY <1>1, <1>2 DEF Calls
<1>4. /\ Range(call.words) \subseteq Range(call.typed) /\ call.values = <<>> /\ call.next = 1
      /\ call.forced => TakesForce(call.entry) /\ Long("force") \in Range(call.typed)
  BY <1>1 DEF CallOK, StripOK, ForceOK
<1>5. CallOK(call')
  BY <1>3, <1>4 DEF CallOK, ForceOK, StripOK, ParseOK, PromptOK, CompleteOK, AgreedOK
<1>6. QED
  BY <1>5, GoesOnServing

LEMMA StripOptionStep ==
    ASSUME SessionInv, StripOption
    PROVE  ServedWell
<1> DEFINE word == Head(call.words)
           drop(n) == SubSeq(call.words, n + 1, Len(call.words))
<1>1. Busy("strip") /\ call.words # <<>>
  BY DEF StripOption
<1>2. CallOK(call) /\ call \in Calls
  BY <1>1, BusyCall DEF SessionInv, Phases
<1>3. /\ call.words \in Seq(Word) /\ call.kept \in Seq(Word) /\ call.forced \in BOOLEAN
      /\ Range(call.words) \subseteq Range(call.typed)
  BY <1>1, <1>2 DEF Calls, CallOK, StripOK, Busy
<1>4. word \in Word /\ word \in Range(call.words)
  <2>1. word = call.words[1] /\ 1 \in DOMAIN call.words
    BY <1>1, <1>3
  <2> QED BY <2>1, <1>3 DEF Range
<1>5. \A n \in {1, 2} : drop(n) \in Seq(Word) /\ Range(drop(n)) \subseteq Range(call.words)
  BY <1>3, DroppedRange
<1>6. Append(call.kept, word) \in Seq(Word)
  BY <1>3, <1>4
<1>7. \/ Refuse
      \/ Become([call EXCEPT !.words = drop(2)])
      \/ Become([call EXCEPT !.words = drop(1)])
      \/ /\ TakesForce(call.entry) /\ word = Long("force")
         /\ Become([call EXCEPT !.words = drop(1), !.forced = TRUE])
      \/ Become([call EXCEPT !.words = drop(1), !.kept = Append(@, word)])
  BY DEF StripOption
<1> HIDE DEF word, drop
<1>8. \/ Refuse
      \/ \E n \in {1, 2} :
            Become([call EXCEPT !.words = drop(n), !.kept = call.kept, !.forced = call.forced])
      \/ /\ TakesForce(call.entry) /\ word = Long("force")
         /\ Become([call EXCEPT !.words = drop(1), !.kept = call.kept, !.forced = TRUE])
      \/ Become([call EXCEPT !.words = drop(1), !.kept = Append(call.kept, word),
                             !.forced = call.forced])
  <2>1. ASSUME NEW w
        PROVE  /\ [call EXCEPT !.words = w]
                    = [call EXCEPT !.words = w, !.kept = call.kept, !.forced = call.forced]
               /\ [call EXCEPT !.words = w, !.forced = TRUE]
                    = [call EXCEPT !.words = w, !.kept = call.kept, !.forced = TRUE]
               /\ [call EXCEPT !.words = w, !.kept = Append(@, word)]
                    = [call EXCEPT !.words = w, !.kept = Append(call.kept, word),
                                   !.forced = call.forced]
    BY <1>2 DEF Calls
  <2> QED BY <1>7, <2>1
<1>9. CASE Refuse
  BY <1>9, Refused
<1>10. ASSUME NEW n \in {1, 2},
              Become([call EXCEPT !.words = drop(n), !.kept = call.kept, !.forced = call.forced])
       PROVE  ServedWell
  BY <1>1, <1>3, <1>5, <1>10, StillStripping
<1>11. CASE /\ TakesForce(call.entry) /\ word = Long("force")
            /\ Become([call EXCEPT !.words = drop(1), !.kept = call.kept, !.forced = TRUE])
  BY <1>1, <1>3, <1>4, <1>5, <1>11, StillStripping
<1>12. CASE Become([call EXCEPT !.words = drop(1), !.kept = Append(call.kept, word),
                                !.forced = call.forced])
  BY <1>1, <1>3, <1>5, <1>6, <1>12, StillStripping
<1>13. QED
  BY <1>8, <1>9, <1>10, <1>11, <1>12

LEMMA DroppedTwice ==
    ASSUME NEW s \in Seq(Word), NEW p \in Nat, NEW n \in Nat, p + n <= Len(s)
    PROVE  LET t == SubSeq(s, p + 1, Len(s)) IN
           SubSeq(t, n + 1, Len(t)) = SubSeq(s, p + n + 1, Len(s))
<1> DEFINE t == SubSeq(s, p + 1, Len(s))
           u == SubSeq(t, n + 1, Len(t))
           v == SubSeq(s, (p + n) + 1, Len(s))
<1>1. /\ t \in Seq(Word) /\ Len(t) = Len(s) - p /\ Len(s) \in Nat
      /\ \A i \in 1 .. Len(t) : t[i] = s[i + p]
  BY Dropped
<1> HIDE DEF t
<1>2. /\ u \in Seq(Word) /\ Len(u) = IF n < Len(t) THEN Len(t) - n ELSE 0
      /\ \A i \in 1 .. Len(u) : u[i] = t[i + n] /\ i + n \in 1 .. Len(t)
  BY <1>1, Dropped
<1>3. /\ v \in Seq(Word) /\ Len(v) = IF p + n < Len(s) THEN Len(s) - (p + n) ELSE 0
      /\ \A i \in 1 .. Len(v) : v[i] = s[i + (p + n)]
  BY Dropped
<1> HIDE DEF u, v
<1>4. Len(u) = Len(v)
  BY <1>1, <1>2, <1>3
<1>5. \A i \in 1 .. Len(u) : u[i] = v[i]
  <2>1. ASSUME NEW i \in 1 .. Len(u) PROVE u[i] = v[i]
    <3>1. u[i] = s[(i + n) + p] /\ v[i] = s[i + (p + n)]
      BY <1>1, <1>2, <1>3, <1>4
    <3>2. (i + n) + p = i + (p + n)
      BY <1>2
    <3> QED BY <3>1, <3>2
  <2> QED BY <2>1
<1>6. u = v
  <2>1. /\ u = [i \in 1 .. Len(u) |-> u[i]] /\ v = [i \in 1 .. Len(v) |-> v[i]]
    BY <1>2, <1>3
  <2> QED BY <1>4, <1>5, <2>1
<1>7. QED
  BY <1>6 DEF t, u, v

LEMMA NothingUnderstood ==
    ASSUME NEW entry, NEW words \in Seq(Word)
    PROVE  Understood(entry, words, <<>>, 0, 1)
<1>1. /\ \A i \in Named(entry, words) : ~(i <= 0)
      /\ \A i \in Loose(entry, words) : ~(i <= 0)
  BY DEF Named, Loose
<1> DEFINE f == [i \in {} |-> 0]
<1>2. {i \in Loose(entry, words) : i <= 0} = {}
  BY <1>1
<1>3. Placed(entry, words, <<>>, 0, 1, f)
  BY <1>2 DEF Placed
<1>4. FlagsTold(entry, words, <<>>, 0)
  BY <1>1 DEF FlagsTold
<1>5. \A n : n \notin DOMAIN <<>>
  OBVIOUS
<1> HIDE DEF f
<1>6. QED
  BY <1>3, <1>4, <1>5 DEF Understood

LEMMA StrippedStep ==
    ASSUME SessionInv, Stripped
    PROVE  ServedWell
<1>1. CallOK(call) /\ call \in Calls /\ call.phase = "strip"
  BY BusyCall DEF SessionInv, Phases, Stripped
<1>2. call' = [call EXCEPT !.phase = "parse", !.words = call.kept]
  BY DEF Stripped, Become
<1>3. "parse" \in Phases
  BY DEF Phases
<1>4. /\ call' \in Calls /\ call'.phase = "parse" /\ call'.words = call.kept
      /\ call'.kept = call.kept /\ call'.forced = call.forced /\ call'.entry = call.entry
      /\ call'.typed = call.typed /\ call'.values = call.values /\ call'.next = call.next
      /\ call.kept \in Seq(Word)
  BY <1>1, <1>2, <1>3 DEF Calls
<1>5. call.values = <<>> /\ call.next = 1
  BY <1>1 DEF CallOK, StripOK
<1>6. /\ Understood(call.entry, call.kept, <<>>, 0, 1) /\ Fitting(call.entry, <<>>)
      /\ SubSeq(call.kept, 0 + 1, Len(call.kept)) = call.kept
      /\ 0 \in 0 .. Len(call.kept)
  <2>1. Understood(call.entry, call.kept, <<>>, 0, 1)
    BY <1>4, NothingUnderstood
  <2>2. Fitting(call.entry, <<>>)
    BY NoValues DEF Fitting
  <2>3. SubSeq(call.kept, 1, Len(call.kept)) = call.kept /\ 0 \in 0 .. Len(call.kept)
    BY <1>4, SubSeqFull
  <2> QED BY <2>1, <2>2, <2>3
<1>7. ParseOK(call')
  BY <1>4, <1>5, <1>6 DEF ParseOK
<1>8. ForceOK(call')
  BY <1>1, <1>4 DEF CallOK, ForceOK
<1>9. CallOK(call')
  BY <1>4, <1>7, <1>8 DEF CallOK, StripOK, PromptOK, CompleteOK, AgreedOK
<1>10. QED
  BY <1>9, GoesOnServing DEF Stripped

\* Where the parse is: behind the first p words kept.
LEMMA ParseAt ==
    ASSUME SessionInv, Busy("parse")
    PROVE  /\ CallOK(call) /\ call \in Calls /\ call.phase = "parse"
           /\ call.entry \in SoundEntries /\ call.kept \in Seq(Word) /\ call.words \in Seq(Word)
           /\ call.values \in Dictionaries /\ Fitting(call.entry, call.values)
           /\ call.next \in Nat /\ Len(call.kept) \in Nat
           /\ \E p \in 0 .. Len(call.kept) :
                /\ call.words = SubSeq(call.kept, p + 1, Len(call.kept))
                /\ Understood(call.entry, call.kept, call.values, p, call.next)
                /\ Len(call.words) = Len(call.kept) - p
                /\ \A i \in 1 .. Len(call.words) :
                    call.words[i] = call.kept[i + p] /\ i + p \in DOMAIN call.kept
<1>1. CallOK(call) /\ call \in Calls /\ call.phase = "parse"
  BY BusyCall DEF SessionInv, Phases
<1>2. /\ call.entry \in SoundEntries /\ call.kept \in Seq(Word) /\ call.words \in Seq(Word)
      /\ call.values \in Dictionaries /\ call.next \in Nat
  BY <1>1 DEF Calls
<1>3. Fitting(call.entry, call.values)
  BY <1>1 DEF CallOK, ParseOK
<1>4. PICK p \in 0 .. Len(call.kept) :
         /\ call.words = SubSeq(call.kept, p + 1, Len(call.kept))
         /\ Understood(call.entry, call.kept, call.values, p, call.next)
  BY <1>1 DEF CallOK, ParseOK
<1>5. p \in Nat /\ Len(call.kept) \in Nat /\ p <= Len(call.kept)
      /\ DOMAIN call.kept = 1 .. Len(call.kept)
  BY <1>2
<1>6. /\ Len(call.words) = IF p < Len(call.kept) THEN Len(call.kept) - p ELSE 0
      /\ \A i \in 1 .. Len(call.words) :
            call.words[i] = call.kept[i + p] /\ i + p \in 1 .. Len(call.kept)
  <2> DEFINE t == SubSeq(call.kept, p + 1, Len(call.kept))
  <2>1. /\ Len(t) = IF p < Len(call.kept) THEN Len(call.kept) - p ELSE 0
        /\ \A i \in 1 .. Len(t) : t[i] = call.kept[i + p] /\ i + p \in 1 .. Len(call.kept)
    BY <1>2, <1>5, Dropped
  <2>2. call.words = t
    BY <1>4
  <2> HIDE DEF t
  <2> QED BY <2>1, <2>2
<1>7. Len(call.words) = Len(call.kept) - p
  BY <1>5, <1>6
<1>8. \A i \in 1 .. Len(call.words) :
         call.words[i] = call.kept[i + p] /\ i + p \in DOMAIN call.kept
  BY <1>5, <1>6
<1>9. /\ call.words = SubSeq(call.kept, p + 1, Len(call.kept))
      /\ Understood(call.entry, call.kept, call.values, p, call.next)
      /\ Len(call.words) = Len(call.kept) - p
      /\ \A i \in 1 .. Len(call.words) :
            call.words[i] = call.kept[i + p] /\ i + p \in DOMAIN call.kept
  BY <1>4, <1>7, <1>8
<1>10. QED
  BY <1>1, <1>2, <1>3, <1>5, <1>9

\* n words are parsed, and make the values new.
Parses(n, next, new) ==
    Become([call EXCEPT !.words = SubSeq(call.words, n + 1, Len(call.words)),
                        !.next = next, !.values = new])

LEMMA ParsesMore ==
    ASSUME SessionInv, Busy("parse"), NEW p \in 0 .. Len(call.kept), NEW n \in {1, 2},
           call.words = SubSeq(call.kept, p + 1, Len(call.kept)), p + n <= Len(call.kept),
           NEW new \in Dictionaries, Fitting(call.entry, new), NEW next \in Nat,
           Understood(call.entry, call.kept, new, p + n, next),
           Parses(n, next, new)
    PROVE  ServedWell
<1> DEFINE w == SubSeq(call.words, n + 1, Len(call.words))
<1>1. /\ CallOK(call) /\ call \in Calls /\ call.phase = "parse" /\ call.kept \in Seq(Word)
      /\ call.words \in Seq(Word) /\ Len(call.kept) \in Nat
  BY ParseAt
<1>2. w \in Seq(Word)
  BY <1>1, Dropped
<1>3. w = SubSeq(call.kept, p + n + 1, Len(call.kept))
  <2>1. p \in Nat /\ n \in Nat
    BY <1>1
  <2> DEFINE t == SubSeq(call.kept, p + 1, Len(call.kept))
  <2>2. SubSeq(t, n + 1, Len(t)) = SubSeq(call.kept, p + n + 1, Len(call.kept))
    BY <1>1, <2>1, DroppedTwice
  <2> QED BY <2>2
<1> HIDE DEF w
<1>4. call' = [call EXCEPT !.words = w, !.next = next, !.values = new]
  BY DEF Parses, Become, w
<1>5. /\ call' \in Calls /\ call'.phase = "parse" /\ call'.words = w /\ call'.values = new
      /\ call'.kept = call.kept /\ call'.forced = call.forced /\ call'.entry = call.entry
      /\ call'.typed = call.typed /\ call'.next = next
  BY <1>1, <1>2, <1>4 DEF Calls
<1>6. p + n \in 0 .. Len(call.kept)
  BY <1>1
<1>7. ParseOK(call')
  BY <1>3, <1>5, <1>6 DEF ParseOK
<1>8. ForceOK(call')
  BY <1>1, <1>5 DEF CallOK, ForceOK
<1>9. CallOK(call')
  BY <1>5, <1>7, <1>8 DEF CallOK, StripOK, PromptOK, CompleteOK, AgreedOK
<1>10. QED
  BY <1>9, GoesOnServing DEF Parses

\* What Took makes of a value, for the k-th argument.
LEMMA TakesValue ==
    ASSUME SessionInv, Busy("parse"), NEW k \in DOMAIN call.entry.arguments, NEW v \in Values,
           Suits(call.entry.arguments[k], v),
           Has(NameOf(call.entry, k)) => call.values[NameOf(call.entry, k)] = v,
           NEW n, NEW next, Become(Took(call.entry.arguments[k], v, n, next))
    PROVE  \E new \in Dictionaries :
              /\ Fitting(call.entry, new) /\ Gains(new, call.values, NameOf(call.entry, k), v)
              /\ Parses(n, next, new)
<1> DEFINE m == NameOf(call.entry, k)
           new == IF m \in DOMAIN call.values THEN call.values ELSE With(call.values, {m}, v)
<1>1. /\ call \in Calls /\ call.entry \in SoundEntries /\ call.values \in Dictionaries
      /\ Fitting(call.entry, call.values)
  BY ParseAt
<1>2. new \in Dictionaries /\ Fitting(call.entry, new) /\ Gains(new, call.values, m, v)
  BY <1>1, ValueGiven DEF Has
<1>3. new = IF Has(m) THEN call.values ELSE With(call.values, {m}, v)
  BY DEF Has
<1> HIDE DEF new
<1>4. Parses(n, next, new)
  BY <1>3 DEF Took, NameOf, Parses
<1>5. QED
  BY <1>2, <1>4

LEMMA ParseNamedStep ==
    ASSUME SessionInv, ParseNamed
    PROVE  ServedWell
<1> DEFINE word == call.words[1]
           a == Flagged(call.entry, word)
<1>1. Busy("parse") /\ call.words # <<>> /\ Head(call.words) \in NamedFlags(call.entry)
  BY DEF ParseNamed
<1>2. /\ call.entry \in SoundEntries /\ call.kept \in Seq(Word) /\ call.words \in Seq(Word)
      /\ call.next \in Nat /\ Len(call.kept) \in Nat
  BY <1>1, ParseAt
<1>3. PICK p \in 0 .. Len(call.kept) :
         /\ call.words = SubSeq(call.kept, p + 1, Len(call.kept))
         /\ Understood(call.entry, call.kept, call.values, p, call.next)
         /\ Len(call.words) = Len(call.kept) - p
         /\ \A i \in 1 .. Len(call.words) :
            call.words[i] = call.kept[i + p] /\ i + p \in DOMAIN call.kept
  BY <1>1, ParseAt
<1>4. Head(call.words) = word /\ 1 \in 1 .. Len(call.words)
  BY <1>1, <1>2
<1>5. /\ p \in Nat /\ p + 1 <= Len(call.kept) /\ word = call.kept[p + 1]
      /\ p + 1 \in Named(call.entry, call.kept)
  BY <1>1, <1>2, <1>3, <1>4 DEF Named
<1>6. PICK k \in DOMAIN call.entry.arguments : a = call.entry.arguments[k]
  BY <1>1, <1>2, <1>4, FlagNamesOne
<1>7. a.name = NameOf(call.entry, k)
  BY <1>6 DEF NameOf
<1>8. ASSUME NEW n \in {1, 2}, p + n <= Len(call.kept), n = 2 <=> a.kind # "bool",
             n = 2 => call.kept[p + 2] \notin NamedFlags(call.entry),
             NEW v \in Values, v = (IF n = 2 THEN call.kept[p + 2] ELSE Yes), Suits(a, v),
             ~Conflicts(a, v), Become(Took(a, v, n, call.next))
      PROVE  ServedWell
  <2>1. Has(a.name) => call.values[a.name] = v
    BY <1>8 DEF Conflicts
  <2>2. PICK new \in Dictionaries :
          /\ Fitting(call.entry, new) /\ Gains(new, call.values, a.name, v)
          /\ Parses(n, call.next, new)
    <3>1. /\ Suits(call.entry.arguments[k], v)
          /\ Has(NameOf(call.entry, k)) => call.values[NameOf(call.entry, k)] = v
          /\ Become(Took(call.entry.arguments[k], v, n, call.next))
      BY <1>6, <1>7, <1>8, <2>1
    <3> HIDE DEF a, word
    <3> QED BY <1>1, <1>7, <3>1, TakesValue
  <2>3. n = 2 <=> p + 1 \in Valued(call.entry, call.kept)
    BY <1>5, <1>8 DEF Valued
  <2>4. n = 2 => p + 2 \notin Named(call.entry, call.kept)
    BY <1>8 DEF Named
  <2>5. Gains(new, call.values, Flagged(call.entry, call.kept[p + 1]).name,
              IF n = 2 THEN call.kept[p + 2] ELSE Yes)
    BY <1>5, <1>8, <2>2
  <2> HIDE DEF a, word
  <2>6. Understood(call.entry, call.kept, new, p + n, call.next)
    BY <1>2, <1>3, <1>5, <1>8, <2>3, <2>4, <2>5, FlagUnderstood
  <2> QED BY <1>1, <1>2, <1>3, <1>8, <2>2, <2>6, ParsesMore
<1>9. CASE Refuse
  BY <1>9, Refused
<1>10. CASE a.kind = "bool" /\ ~Refuse
  <2>1. ~Conflicts(a, Yes) /\ Become(Took(a, Yes, 1, call.next))
    BY <1>4, <1>10 DEF ParseNamed
  <2>2. Yes \in Values /\ Suits(a, Yes)
    BY <1>10 DEF Values, Suits
  <2> HIDE DEF a, word
  <2> QED BY <1>5, <1>8, <1>10, <2>1, <2>2
<1>11. CASE a.kind # "bool" /\ ~Refuse
  <2>1. /\ Len(call.words) # 1 /\ call.words[2] \notin NamedFlags(call.entry)
        /\ Coerces(a, call.words[2]) /\ ~Conflicts(a, call.words[2])
        /\ Become(Took(a, call.words[2], 2, call.next))
    BY <1>4, <1>11 DEF ParseNamed
  <2>2. 2 \in 1 .. Len(call.words)
    <3>1. Len(call.words) \in Nat /\ 1 <= Len(call.words) /\ Len(call.words) # 1
      BY <1>2, <1>4, <2>1
    <3>2. \A m \in Nat : 1 <= m /\ m # 1 => 2 \in 1 .. m
      OBVIOUS
    <3> QED BY <3>1, <3>2
  <2>3. /\ call.words[2] = call.kept[p + 2] /\ p + 2 <= Len(call.kept)
        /\ call.words[2] \in Word
    BY <1>2, <1>3, <1>5, <2>2
  <2>4. call.words[2] \in Values /\ Suits(a, call.words[2])
    BY <1>11, <2>1, <2>3 DEF Values, Suits
  <2> HIDE DEF a, word
  <2> QED BY <1>5, <1>8, <1>11, <2>1, <2>3, <2>4
<1>12. QED
  BY <1>9, <1>10, <1>11

LEMMA ParsePositionalStep ==
    ASSUME SessionInv, ParsePositional
    PROVE  ServedWell
<1> DEFINE word == call.words[1]
           k == First(Open)
           a == call.entry.arguments[k]
<1>1. Busy("parse") /\ call.words # <<>> /\ Head(call.words) \notin NamedFlags(call.entry)
  BY DEF ParsePositional
<1>2. /\ call.entry \in SoundEntries /\ call.kept \in Seq(Word) /\ call.words \in Seq(Word)
      /\ call.next \in Nat /\ Len(call.kept) \in Nat
  BY <1>1, ParseAt
<1>3. PICK p \in 0 .. Len(call.kept) :
         /\ call.words = SubSeq(call.kept, p + 1, Len(call.kept))
         /\ Understood(call.entry, call.kept, call.values, p, call.next)
         /\ Len(call.words) = Len(call.kept) - p
         /\ \A i \in 1 .. Len(call.words) :
            call.words[i] = call.kept[i + p] /\ i + p \in DOMAIN call.kept
  BY <1>1, ParseAt
<1>4. Head(call.words) = word /\ 1 \in 1 .. Len(call.words) /\ word \in Word
  BY <1>1, <1>2
<1>5. /\ p \in Nat /\ p + 1 <= Len(call.kept) /\ word = call.kept[p + 1]
      /\ p + 1 \in DOMAIN call.kept /\ p + 1 \notin Named(call.entry, call.kept)
  BY <1>1, <1>2, <1>3, <1>4 DEF Named
<1>6. CASE Refuse
  BY <1>6, Refused
<1>7. CASE ~Refuse
  <2>1. Open # {} /\ Coerces(a, word) /\ Become(Took(a, word, 1, k + 1))
    BY <1>4, <1>7 DEF ParsePositional
  <2>2. Open \subseteq Nat
    BY <1>2, SoundArguments DEF Open, Pool
  <2>3. k \in Open
    BY <2>1, <2>2, FirstIsLeast
  <2> HIDE DEF word, k, a
  <2>4. /\ k \in Pool(call.entry) /\ k \in DOMAIN call.entry.arguments /\ call.next <= k
        /\ k \in Nat /\ a.kind # "bool" /\ NameOf(call.entry, k) \notin DOMAIN call.values
    BY <2>2, <2>3 DEF Open, Pool, Has, NameOf, a
  <2>5. word \in Values /\ Suits(a, word)
    BY <1>4, <2>1, <2>4 DEF Values, Suits
  <2>6. /\ Suits(call.entry.arguments[k], word)
        /\ Has(NameOf(call.entry, k)) => call.values[NameOf(call.entry, k)] = word
        /\ Become(Took(call.entry.arguments[k], word, 1, k + 1))
    BY <2>1, <2>4, <2>5 DEF Has, a
  <2>7. PICK new \in Dictionaries :
          /\ Fitting(call.entry, new) /\ Gains(new, call.values, NameOf(call.entry, k), word)
          /\ Parses(1, k + 1, new)
    BY <1>1, <2>4, <2>5, <2>6, TakesValue
  <2>8. Understood(call.entry, call.kept, new, p + 1, k + 1)
    BY <1>2, <1>3, <1>5, <2>4, <2>7, WordUnderstood
  <2>9. k + 1 \in Nat
    BY <2>4
  <2> QED BY <1>1, <1>3, <1>5, <2>7, <2>8, <2>9, ParsesMore
<1>8. QED
  BY <1>6, <1>7

\* Every argument that is not required has its default.
LEMMA DefaultsFilled ==
    ASSUME call.entry \in SoundEntries, call.values \in Dictionaries,
           Fitting(call.entry, call.values)
    PROVE  /\ Filled \in Dictionaries /\ Fitting(call.entry, Filled)
           /\ \A n \in DOMAIN call.values : n \in DOMAIN Filled /\ Filled[n] = call.values[n]
           /\ \A k \in DOMAIN call.entry.arguments :
                NameOf(call.entry, k) \notin DOMAIN call.values =>
                  IF call.entry.arguments[k].required
                  THEN NameOf(call.entry, k) \notin DOMAIN Filled
                  ELSE /\ NameOf(call.entry, k) \in DOMAIN Filled
                       /\ Filled[NameOf(call.entry, k)] \in {Default, No}
<1> DEFINE args == call.entry.arguments
           old == call.values
           missing == {a \in Range(args) : ~Has(a.name) /\ ~a.required}
           names == DOMAIN old \union {a.name : a \in missing}
           value(n) == IF Has(n) THEN old[n]
                       ELSE IF \E a \in missing : a.name = n /\ a.kind = "bool" THEN No ELSE Default
           new == [n \in names |-> value(n)]
<1>1. Filled = new
  BY DEF Filled
<1>2. \A a \in missing : \E k \in DOMAIN args : a = args[k]
  BY DEF Range
<1>3. \A k \in DOMAIN args : args[k] \in missing <=> (NameOf(call.entry, k) \notin DOMAIN old /\ ~args[k].required)
  BY DEF Range, NameOf, Has
<1>4. /\ \A k \in DOMAIN args : NameOf(call.entry, k) \in Labels
      /\ \A k, j \in DOMAIN args : NameOf(call.entry, k) = NameOf(call.entry, j) => k = j
      /\ \A k \in DOMAIN args : NameOf(call.entry, k) = args[k].name
  BY SoundArguments DEF NameOf
<1>5. PICK S \in SUBSET Labels : old \in [S -> Values]
  BY DEF Dictionaries
<1>6. names \in SUBSET Labels
  BY <1>2, <1>4, <1>5
<1> HIDE DEF args, missing, old
<1>7. \A n \in names : value(n) \in Values
  BY <1>5 DEF Values, Has, old
<1>8. new \in [names -> Values]
  <2> HIDE DEF names, value
  <2> QED BY <1>7
<1>9. new \in Dictionaries
  <2> HIDE DEF names, new
  <2> QED BY <1>6, <1>8 DEF Dictionaries
<1>10. \A n \in DOMAIN old : n \in DOMAIN new /\ new[n] = old[n]
  BY DEF Has, old
<1>11. ASSUME NEW k \in DOMAIN args, NameOf(call.entry, k) \notin DOMAIN old
       PROVE  IF args[k].required
              THEN NameOf(call.entry, k) \notin DOMAIN new
              ELSE /\ NameOf(call.entry, k) \in DOMAIN new
                   /\ new[NameOf(call.entry, k)] = IF args[k].kind = "bool" THEN No ELSE Default
  <2> DEFINE n == NameOf(call.entry, k)
  <2>1. \A a \in missing : a.name = n => a = args[k]
    BY <1>2, <1>4
  <2>2. CASE args[k].required
    <3>1. args[k] \notin missing
      BY <1>3, <2>2
    <3>2. n \notin names
      BY <1>11, <2>1, <3>1
    <3> QED BY <2>2, <3>2
  <2>3. CASE ~args[k].required
    <3>1. args[k] \in missing /\ args[k].name = n
      BY <1>3, <1>4, <1>11, <2>3
    <3>2. n \in names /\ ~Has(n)
      BY <1>11, <3>1 DEF Has, old
    <3>3. value(n) = IF args[k].kind = "bool" THEN No ELSE Default
      BY <2>1, <3>1, <3>2
    <3> HIDE DEF names, value, n
    <3> QED BY <2>3, <3>2, <3>3 DEF n
  <2> QED BY <2>2, <2>3
<1>12. Fitting(call.entry, new)
  <2>1. ASSUME NEW k \in DOMAIN args, NameOf(call.entry, k) \in DOMAIN new
        PROVE  Suits(args[k], new[NameOf(call.entry, k)])
    <3> HIDE DEF new
    <3>1. CASE NameOf(call.entry, k) \in DOMAIN old
      BY <3>1, <1>10 DEF Fitting, args, old
    <3>2. CASE NameOf(call.entry, k) \notin DOMAIN old
      BY <3>2, <2>1, <1>11 DEF Suits
    <3> QED BY <3>1, <3>2
  <2>2. ASSUME NEW n \in DOMAIN new
        PROVE  \E k \in DOMAIN args : NameOf(call.entry, k) = n
    BY <1>2, <1>4 DEF Fitting, args, old
  <2> HIDE DEF new
  <2> QED BY <2>1, <2>2 DEF Fitting, args
<1> HIDE DEF new
<1>13. QED
  BY <1>1, <1>9, <1>10, <1>11, <1>12 DEF args, old

More(new, values) == \A n \in DOMAIN values : n \in DOMAIN new /\ new[n] = values[n]

LEMMA FlagsStayTold ==
    ASSUME NEW entry, NEW words, NEW values, NEW new, NEW p, FlagsTold(entry, words, values, p),
           More(new, values)
    PROVE  FlagsTold(entry, words, new, p)
  BY DEF FlagsTold, More

LEMMA StaysPlaced ==
    ASSUME NEW entry, NEW words, NEW values, NEW new, NEW p, NEW next, NEW f,
           Placed(entry, words, values, p, next, f), More(new, values)
    PROVE  Placed(entry, words, new, p, next, f)
  BY DEF Placed, More

LEMMA StaysTold ==
    ASSUME NEW entry, NEW words, NEW values, NEW new, NEW next, Told(entry, words, values, next),
           More(new, values)
    PROVE  Told(entry, words, new, next)
<1>1. FlagsTold(entry, words, new, Len(words))
  BY FlagsStayTold DEF Told
<1>2. PICK f : /\ Placed(entry, words, values, Len(words), next, f)
               /\ \A k \in DOMAIN entry.arguments :
                    \/ Given(entry, words, Len(words), f, k)
                    \/ entry.arguments[k].required /\ entry.arguments[k].prompt
                    \/ /\ ~entry.arguments[k].required
                       /\ NameOf(entry, k) \in DOMAIN values
                       /\ values[NameOf(entry, k)] \in {Default, No}
  BY DEF Told
<1>3. Placed(entry, words, new, Len(words), next, f)
  BY <1>2, StaysPlaced
<1>4. \A k \in DOMAIN entry.arguments :
         \/ Given(entry, words, Len(words), f, k)
         \/ entry.arguments[k].required /\ entry.arguments[k].prompt
         \/ /\ ~entry.arguments[k].required
            /\ NameOf(entry, k) \in DOMAIN new
            /\ new[NameOf(entry, k)] \in {Default, No}
  BY <1>2 DEF More
<1>5. QED
  BY <1>1, <1>3, <1>4 DEF Told

LEMMA ParsedStep ==
    ASSUME SessionInv, Parsed
    PROVE  ServedWell
<1>1. Busy("parse") /\ call.words = <<>>
  BY DEF Parsed
<1>2. /\ call.entry \in SoundEntries /\ call.kept \in Seq(Word) /\ call.values \in Dictionaries
      /\ call.next \in Nat /\ Len(call.kept) \in Nat /\ Fitting(call.entry, call.values)
      /\ CallOK(call) /\ call \in Calls
  BY <1>1, ParseAt
<1>3. PICK p \in 0 .. Len(call.kept) :
         /\ Understood(call.entry, call.kept, call.values, p, call.next)
         /\ Len(call.words) = Len(call.kept) - p
  BY <1>1, ParseAt
<1>4. p = Len(call.kept)
  <2>1. Len(call.words) = 0
    BY <1>1
  <2> QED BY <1>2, <1>3, <2>1
<1>5. CASE Refuse
  BY <1>5, Refused
<1>6. CASE ~Refuse
  <2>1. /\ \A k \in Unanswered(Filled) : call.entry.arguments[k].prompt
        /\ \E tty \in BOOLEAN :
             Become([call EXCEPT !.phase = "prompt", !.values = Filled, !.tty = tty])
    BY <1>6 DEF Parsed
  <2> DEFINE new == Filled
             entry == call.entry
             kept == call.kept
             next == call.next
  <2>2. /\ new \in Dictionaries /\ Fitting(entry, new) /\ More(new, call.values)
        /\ \A k \in DOMAIN entry.arguments :
                NameOf(entry, k) \notin DOMAIN call.values =>
                  IF entry.arguments[k].required
                  THEN NameOf(entry, k) \notin DOMAIN new
                  ELSE NameOf(entry, k) \in DOMAIN new /\ new[NameOf(entry, k)] \in {Default, No}
    BY <1>2, DefaultsFilled DEF More
  <2>3. PICK tty \in BOOLEAN :
             Become([call EXCEPT !.phase = "prompt", !.values = new, !.tty = tty])
    BY <2>1
  <2>4. \A k \in DOMAIN entry.arguments : NameOf(entry, k) \notin DOMAIN new => entry.arguments[k].prompt
    BY <2>1 DEF Unanswered, NameOf
  <2> HIDE DEF new
  <2>5. PICK f : /\ Placed(entry, kept, call.values, p, next, f)
                 /\ \A k \in DOMAIN entry.arguments :
                      NameOf(entry, k) \in DOMAIN call.values => Given(entry, kept, p, f, k)
    BY <1>3 DEF Understood
  <2>6. FlagsTold(entry, kept, new, p) /\ Placed(entry, kept, new, p, next, f)
    BY <1>3, <2>2, <2>5, FlagsStayTold, StaysPlaced DEF Understood
  <2>7. \A k \in DOMAIN entry.arguments :
           \/ NameOf(entry, k) \in DOMAIN new
           \/ entry.arguments[k].required /\ entry.arguments[k].prompt
    BY <2>2, <2>4 DEF More
  <2>8. \A k \in DOMAIN entry.arguments :
           \/ Given(entry, kept, p, f, k)
           \/ entry.arguments[k].required /\ entry.arguments[k].prompt
           \/ /\ ~entry.arguments[k].required
              /\ NameOf(entry, k) \in DOMAIN new /\ new[NameOf(entry, k)] \in {Default, No}
    BY <2>2, <2>4, <2>5
  <2>9. Told(entry, kept, new, next)
    <3> HIDE DEF entry, kept, next
    <3> QED BY <1>4, <2>6, <2>8 DEF Told, kept
  <2>10. "prompt" \in Phases
    BY DEF Phases
  <2>11. call' = [call EXCEPT !.phase = "prompt", !.values = new, !.tty = tty]
    BY <2>3 DEF Become
  <2>12. /\ call' \in Calls /\ call'.phase = "prompt" /\ call'.values = new
         /\ call'.kept = kept /\ call'.forced = call.forced /\ call'.entry = entry
         /\ call'.typed = call.typed /\ call'.next = next
    BY <1>2, <2>2, <2>10, <2>11 DEF Calls
  <2>13. PromptOK(call')
    <3> HIDE DEF entry, kept, next
    <3> QED BY <2>2, <2>7, <2>9, <2>12 DEF PromptOK
  <2>14. ForceOK(call')
    BY <1>2, <2>12 DEF CallOK, ForceOK
  <2>15. CallOK(call')
    BY <2>12, <2>13, <2>14 DEF CallOK, StripOK, ParseOK, CompleteOK, AgreedOK
  <2> QED BY <2>3, <2>15, GoesOnServing
<1>7. QED
  BY <1>5, <1>6

LEMMA PromptMissingStep ==
    ASSUME SessionInv, PromptMissing
    PROVE  ServedWell
<1> DEFINE k == First(Unanswered(call.values))
           a == call.entry.arguments[k]
           entry == call.entry
<1>1. CallOK(call) /\ call \in Calls /\ call.phase = "prompt" /\ entry \in SoundEntries
  BY BusyCall DEF SessionInv, Phases, PromptMissing
<1>2. /\ Fitting(entry, call.values) /\ Told(entry, call.kept, call.values, call.next)
      /\ \A j \in DOMAIN entry.arguments :
            \/ NameOf(entry, j) \in DOMAIN call.values
            \/ entry.arguments[j].required /\ entry.arguments[j].prompt
      /\ call.values \in Dictionaries
  BY <1>1 DEF CallOK, PromptOK, Calls
<1>3. k \in DOMAIN entry.arguments /\ NameOf(entry, k) \notin DOMAIN call.values
  <2>1. Unanswered(call.values) # {}
    BY DEF PromptMissing
  <2>2. Unanswered(call.values) \subseteq Nat
    BY <1>1, SoundArguments DEF Unanswered
  <2>3. k \in Unanswered(call.values)
    BY <2>1, <2>2, FirstIsLeast
  <2> HIDE DEF k
  <2> QED BY <2>3 DEF Unanswered, NameOf
<1>4. CASE Refuse
  BY <1>4, Refused
<1>5. CASE ~Refuse
  <2>1. PICK answer \in Answers :
          Coerces(a, answer) /\ Become([call EXCEPT !.values = With(@, {a.name}, answer)])
    BY <1>5 DEF PromptMissing
  <2> HIDE DEF k
  <2>2. a.required /\ a.kind # "bool" /\ a.name = NameOf(entry, k)
    BY <1>1, <1>2, <1>3, SoundArguments DEF NameOf
  <2>3. answer \in Values /\ Suits(a, answer)
    BY <2>1, <2>2, SessionAssumption DEF Values, Suits
  <2> DEFINE new == With(call.values, {NameOf(entry, k)}, answer)
  <2>4. call' = [call EXCEPT !.values = new]
    BY <2>1, <2>2 DEF Become
  <2>5. new = IF NameOf(entry, k) \in DOMAIN call.values THEN call.values
              ELSE With(call.values, {NameOf(entry, k)}, answer)
    BY <1>3
  <2> HIDE DEF new
  <2>6. new \in Dictionaries /\ Fitting(entry, new) /\ Gains(new, call.values, NameOf(entry, k), answer)
    BY <1>1, <1>2, <1>3, <2>3, <2>5, ValueGiven
  <2>7. More(new, call.values)
    BY <2>6 DEF Gains, More
  <2>8. Told(entry, call.kept, new, call.next)
    BY <1>2, <2>7, StaysTold
  <2>9. /\ call' \in Calls /\ call'.phase = "prompt" /\ call'.values = new
        /\ call'.kept = call.kept /\ call'.forced = call.forced /\ call'.entry = entry
        /\ call'.typed = call.typed /\ call'.next = call.next
    BY <1>1, <2>4, <2>6 DEF Calls
  <2> HIDE DEF entry
  <2>10. \A j \in DOMAIN entry.arguments :
            \/ NameOf(entry, j) \in DOMAIN new
            \/ entry.arguments[j].required /\ entry.arguments[j].prompt
    BY <1>2, <2>7 DEF More
  <2>11. PromptOK(call')
    BY <2>6, <2>8, <2>9, <2>10 DEF PromptOK
  <2>12. ForceOK(call')
    BY <1>1, <2>9 DEF CallOK, ForceOK, entry
  <2>13. CallOK(call')
    BY <2>9, <2>11, <2>12 DEF CallOK, StripOK, ParseOK, CompleteOK, AgreedOK
  <2> QED BY <2>1, <2>13, GoesOnServing
<1>6. QED
  BY <1>4, <1>5

\* From the prompts on, only the phase and the answer to the confirmation change.
LEMMA Advances ==
    ASSUME SessionInv, NEW from \in {"prompt", "confirm", "call"}, Busy(from),
           NEW to \in {"confirm", "call", "running"}, NEW answered \in BOOLEAN,
           from = "prompt" => Unanswered(call.values) = {} /\ to = "confirm",
           to \in {"call", "running"} =>
                ~call.entry.confirm \/ call.forced \/ answered,
           Become([call EXCEPT !.phase = to, !.answered = answered])
    PROVE  ServedWell
<1>1. from \in Phases /\ to \in Phases
  BY DEF Phases
<1>2. CallOK(call) /\ call \in Calls /\ call.phase = from
  BY <1>1, BusyCall DEF SessionInv
<1>3. call' = [call EXCEPT !.phase = to, !.answered = answered]
  BY DEF Become
<1>4. /\ call' \in Calls /\ call'.phase = to /\ call'.values = call.values
      /\ call'.kept = call.kept /\ call'.forced = call.forced /\ call'.entry = call.entry
      /\ call'.typed = call.typed /\ call'.next = call.next /\ call'.answered = answered
  BY <1>1, <1>2, <1>3 DEF Calls
<1>5. PromptOK(call')
  BY <1>2, <1>4 DEF CallOK, PromptOK
<1>6. \A k \in DOMAIN call.entry.arguments : NameOf(call.entry, k) \in DOMAIN call.values
  <2>1. CASE from = "prompt"
    BY <2>1 DEF Unanswered, NameOf
  <2>2. CASE from # "prompt"
    BY <1>2, <2>2 DEF CallOK, CompleteOK
  <2> QED BY <2>1, <2>2
<1>7. CompleteOK(call')
  BY <1>4, <1>6 DEF CompleteOK
<1>8. AgreedOK(call') /\ ForceOK(call')
  BY <1>2, <1>4 DEF CallOK, AgreedOK, ForceOK
<1>9. CallOK(call')
  BY <1>4, <1>5, <1>7, <1>8 DEF CallOK, StripOK, ParseOK
<1>10. QED
  BY <1>9, GoesOnServing

LEMMA LastSteps ==
    ASSUME SessionInv, \/ Prompted \/ ContextRaises \/ ConfirmCommand \/ Execute
                       \/ HandlerReturns \/ HandlerRaises \/ Interrupted
    PROVE  ServedWell
<1>1. ASSUME NEW phase \in {"prompt", "confirm", "call"}, Busy(phase),
             NEW to, Become([call EXCEPT !.phase = to])
      PROVE  /\ Become([call EXCEPT !.phase = to, !.answered = call.answered])
             /\ call.answered \in BOOLEAN
  <2>1. phase \in Phases
    BY DEF Phases
  <2>2. call \in Calls
    BY <1>1, <2>1, BusyCall DEF SessionInv
  <2>3. [call EXCEPT !.phase = to] = [call EXCEPT !.phase = to, !.answered = call.answered]
    BY <2>2 DEF Calls
  <2>4. call.answered \in BOOLEAN
    BY <2>2 DEF Calls
  <2> QED BY <1>1, <2>3, <2>4
<1>2. CASE Prompted
  <2>1. Busy("prompt") /\ Unanswered(call.values) = {} /\ Become([call EXCEPT !.phase = "confirm"])
    BY <1>2 DEF Prompted
  <2>2. /\ Become([call EXCEPT !.phase = "confirm", !.answered = call.answered])
        /\ call.answered \in BOOLEAN
    BY <1>1, <2>1
  <2> QED BY <2>1, <2>2, Advances
<1>3. CASE ConfirmCommand
  <2>1. \/ Refuse
        \/ call' = NoCall /\ last' = "failed" /\ UNCHANGED <<registry, shell>>
        \/ (~call.entry.confirm \/ call.forced) /\ Become([call EXCEPT !.phase = "call"])
        \/ Become([call EXCEPT !.phase = "call", !.answered = TRUE])
    BY <1>3 DEF ConfirmCommand
  <2>2. Busy("confirm")
    BY <1>3 DEF ConfirmCommand
  <2>3. CASE Refuse
    BY <2>3, Refused
  <2>4. CASE call' = NoCall /\ last' = "failed" /\ UNCHANGED <<registry, shell>>
    BY <2>4, Ends, OutcomesAre
  <2>5. CASE (~call.entry.confirm \/ call.forced) /\ Become([call EXCEPT !.phase = "call"])
    <3>1. /\ Become([call EXCEPT !.phase = "call", !.answered = call.answered])
          /\ call.answered \in BOOLEAN
      BY <1>1, <2>2, <2>5
    <3> QED BY <2>2, <2>5, <3>1, Advances
  <2>6. CASE Become([call EXCEPT !.phase = "call", !.answered = TRUE])
    BY <2>2, <2>6, Advances
  <2> QED BY <2>1, <2>3, <2>4, <2>5, <2>6
<1>4. CASE Execute
  <2>1. Busy("call") /\ (Fault \/ Become([call EXCEPT !.phase = "running"]))
    BY <1>4 DEF Execute
  <2>2. CASE Fault
    BY <2>2, Refused
  <2>3. CASE Become([call EXCEPT !.phase = "running"])
    <3>1. /\ Become([call EXCEPT !.phase = "running", !.answered = call.answered])
          /\ call.answered \in BOOLEAN
      BY <1>1, <2>1, <2>3
    <3>2. ~call.entry.confirm \/ call.forced \/ call.answered
      <4>1. CallOK(call) /\ call.phase = "call"
        BY <2>1, BusyCall DEF SessionInv, Phases
      <4> QED BY <4>1 DEF CallOK, AgreedOK
    <3> QED BY <2>1, <3>1, <3>2, Advances
  <2> QED BY <2>1, <2>2, <2>3
<1>5. CASE HandlerReturns
  <2>1. call' = NoCall /\ last' = "returned" /\ UNCHANGED <<registry, shell>>
    BY <1>5 DEF HandlerReturns
  <2> QED BY <2>1, Ends, OutcomesAre
<1>6. CASE HandlerRaises
  BY <1>6, Refused DEF HandlerRaises
<1>7. CASE Interrupted
  <2>1. call' = NoCall /\ shell' = NoShell /\ last' = "raised"
    BY <1>7 DEF Interrupted
  <2>2. CallInv'
    BY <2>1 DEF CallInv
  <2>3. ShellInv'
    BY <2>1 DEF ShellInv
  <2> QED BY <2>1, <2>2, <2>3, OutcomesAre DEF ServedWell
<1>8. CASE ContextRaises
  <2>1. call' = NoCall /\ last' = "raised" /\ UNCHANGED <<registry, shell>>
    BY <1>8 DEF ContextRaises
  <2> QED BY <2>1, Ends, OutcomesAre
<1>9. QED
  BY <1>2, <1>3, <1>4, <1>5, <1>6, <1>7, <1>8

-----------------------------------------------------------------------------
(* The session.                                                            *)

LEMMA SessionStarts ==
    ASSUME SessionInit
    PROVE  SessionInv
<1>1. RegistryInv
  BY RegistryInit DEF SessionInit
<1>2. CallInv /\ ShellInv
  BY DEF SessionInit, CallInv, ShellInv
<1>3. QED
  BY <1>1, <1>2, OutcomesAre DEF SessionInv, SessionInit

LEMMA DefineStep ==
    ASSUME SessionInv, Define
    PROVE  ServedWell
<1>1. call' = call /\ shell' = shell /\ last' = "none" /\ call = NoCall /\ ~shell.open
  BY DEF Define
<1>2. shell = NoShell
  BY <1>1 DEF SessionInv, ShellInv
<1>3. CallInv'
  BY <1>1 DEF CallInv
<1>4. ShellInv'
  BY <1>1, <1>2 DEF ShellInv
<1>5. QED
  BY <1>1, <1>3, <1>4, OutcomesAre DEF ServedWell

LEMMA SessionStep ==
    ASSUME SessionInv, [SessionNext]_vars
    PROVE  SessionInv'
<1>1. RegistryInv'
  BY SessionKeepsRegistries DEF SessionInv
<1> SUFFICES ServedWell
  BY <1>1 DEF SessionInv, ServedWell
<1>2. CASE Define
  BY <1>2, DefineStep
<1>3. ASSUME NEW r \in Registries,
             ContextFails(r) \/ OpenShell(r) \/ RunBuiltin(r) \/ Run(r) \/ RunAsync(r)
      PROVE  ServedWell
  BY <1>3, BeginStep
<1>4. CASE LeaveShell \/ ShellBuiltin \/ ShellDispatch
  BY <1>4, ShellStep
<1>5. CASE StripOption \/ Stripped
  BY <1>5, StripOptionStep, StrippedStep
<1>6. CASE ParseNamed \/ ParsePositional \/ Parsed
  BY <1>6, ParseNamedStep, ParsePositionalStep, ParsedStep
<1>7. CASE PromptMissing
  BY <1>7, PromptMissingStep
<1>8. CASE \/ Prompted \/ ContextRaises \/ ConfirmCommand \/ Execute
           \/ HandlerReturns \/ HandlerRaises \/ Interrupted
  BY <1>8, LastSteps
<1>9. CASE UNCHANGED vars
  <2>1. call' = call /\ shell' = shell /\ last' = last /\ job' = job
    BY <1>9 DEF vars, registry
  <2>2. CallInv' /\ ShellInv'
    BY <2>1 DEF SessionInv, CallInv, CallOK, ShellInv
  <2> QED BY <2>1, <2>2 DEF SessionInv, ServedWell
<1>10. QED
  BY <1>2, <1>3, <1>4, <1>5, <1>6, <1>7, <1>8, <1>9 DEF SessionNext

\* The inductive invariant: sound registries, a line served the way its command asks,
\* and a shell with a registry.
THEOREM SessionSound == SessionSpec => []SessionInv
<1>1. SessionInit => SessionInv
  BY SessionStarts
<1>2. SessionInv /\ [SessionNext]_vars => SessionInv'
  BY SessionStep
<1>3. QED
  BY <1>1, <1>2, PTL DEF SessionSpec

\* The command line that is executed, or about to be.
LEMMA CallServed ==
    ASSUME SessionInv, call # NoCall
    PROVE  CallOK(call) /\ call \in Calls /\ call.entry \in SoundEntries
  BY DEF SessionInv, CallInv, CallOK, Calls

LEMMA SoundTypes ==
    ASSUME SessionInv
    PROVE  TypeOK
<1>1. shell.open => shell.reg \in Registries /\ job = NoJob
  <2>1. CASE shell = NoShell
    BY <2>1 DEF NoShell
  <2>2. CASE shell # NoShell
    BY <2>2 DEF SessionInv, ShellInv
  <2> QED BY <2>1, <2>2
<1>2. last \in Outcomes /\ imported \subseteq Modules /\ factory \subseteq Registries
  BY DEF SessionInv, RegistryInv
<1>3. \A r \in Registries : \A n \in Names(r) : commands[r][n].name = n
  BY DEF SessionInv, RegistryInv, TablesInv, Sound, OwnNames, Names
<1>4. call # NoCall /\ call.forced => TakesForce(call.entry)
  BY CallServed DEF CallOK, ForceOK
<1>5. ASSUME call # NoCall, call.phase \in {"confirm", "call", "running"}
      PROVE  /\ DOMAIN call.values = {a.name : a \in Range(call.entry.arguments)}
             /\ \A a \in Range(call.entry.arguments) :
                 \/ a.kind = "bool" /\ call.values[a.name] \in {Yes, No}
                 \/ a.kind # "bool" /\ Coerces(a, call.values[a.name])
                 \/ ~a.required /\ call.values[a.name] = Default
  <2>1. /\ Fitting(call.entry, call.values)
        /\ \A k \in DOMAIN call.entry.arguments : NameOf(call.entry, k) \in DOMAIN call.values
    BY <1>5, CallServed DEF CallOK, PromptOK, CompleteOK
  <2>2. \A a \in Range(call.entry.arguments) :
           \E k \in DOMAIN call.entry.arguments :
              a = call.entry.arguments[k] /\ a.name = NameOf(call.entry, k)
    BY DEF Range, NameOf
  <2>3. \A k \in DOMAIN call.entry.arguments :
           \E a \in Range(call.entry.arguments) : a.name = NameOf(call.entry, k)
    BY DEF Range, NameOf
  <2>4. DOMAIN call.values = {a.name : a \in Range(call.entry.arguments)}
    BY <2>1, <2>2, <2>3 DEF Fitting
  <2>5. \A a \in Range(call.entry.arguments) : Suits(a, call.values[a.name])
    BY <2>1, <2>2 DEF Fitting
  <2> QED BY <2>4, <2>5 DEF Suits
<1>6. QED
  BY <1>1, <1>2, <1>3, <1>4, <1>5 DEF TypeOK

\* A command line that is executed has a value for every argument of its command, of
\* the argument's type; registries hold entries under their own names.
THEOREM TypesCorrect == SessionSpec => []TypeOK
<1>1. SessionInv => TypeOK
  BY SoundTypes
<1>2. QED
  BY <1>1, SessionSound, PTL

LEMMA SoundConsent ==
    ASSUME SessionInv
    PROVE  ConsentGiven
<1> SUFFICES ASSUME call.phase = "running", call.entry.confirm, ~call.answered
             PROVE  /\ Long("force") \in Range(call.typed)
                    /\ \A a \in Range(call.entry.arguments) : a.name # "force"
  BY DEF ConsentGiven
<1>1. call # NoCall
  BY DEF NoCall
<1>2. TakesForce(call.entry) /\ Long("force") \in Range(call.typed)
  BY <1>1, CallServed DEF CallOK, AgreedOK, ForceOK
<1>3. \A a \in Range(call.entry.arguments) : Long(a.name) # Long("force")
  BY <1>2 DEF TakesForce, NamedFlags
<1>4. QED
  BY <1>2, <1>3

\* A command with a confirmation runs only when its user agreed to this very line.
THEOREM Consent == SessionSpec => []ConsentGiven
<1>1. SessionInv => ConsentGiven
  BY SoundConsent
<1>2. QED
  BY <1>1, SessionSound, PTL

LEMMA SoundReading ==
    ASSUME SessionInv
    PROVE  SaysWhatWasTyped
<1> SUFFICES ASSUME call.phase = "running" PROVE SaysWhatWasTyped
  BY DEF SaysWhatWasTyped
<1> DEFINE words == call.kept
           arguments == call.entry.arguments
           named == {i \in DOMAIN words : words[i] \in NamedFlags(call.entry)}
           of(i) == Flagged(call.entry, words[i])
           valued == {i \in named : of(i).kind # "bool"}
           loose == DOMAIN words \ (named \union {i + 1 : i \in valued})
<1>1. call # NoCall
  BY DEF NoCall
<1>2. /\ call.kept \in Seq(Word) /\ call.entry \in SoundEntries
      /\ Told(call.entry, call.kept, call.values, call.next)
      /\ \A k \in DOMAIN arguments : NameOf(call.entry, k) \in DOMAIN call.values
  BY <1>1, CallServed DEF Calls, CallOK, PromptOK, CompleteOK
<1>3. /\ named = Named(call.entry, words) /\ valued = Valued(call.entry, words)
      /\ loose = Loose(call.entry, words)
  BY DEF Named, Valued, Loose
<1>4. \A i \in DOMAIN words : i <= Len(words)
  BY <1>2
<1>5. named \subseteq DOMAIN words /\ loose \subseteq DOMAIN words
  OBVIOUS
<1> HIDE DEF named, valued, loose
<1>6. ASSUME NEW i \in named
      PROVE  call.values[of(i).name] = IF i \in valued THEN words[i + 1] ELSE Yes
  BY <1>2, <1>3, <1>4, <1>5 DEF Told, FlagsTold
<1>7. PICK f : /\ Placed(call.entry, words, call.values, Len(words), call.next, f)
               /\ \A k \in DOMAIN arguments :
                    \/ Given(call.entry, words, Len(words), f, k)
                    \/ arguments[k].required /\ arguments[k].prompt
                    \/ /\ ~arguments[k].required
                       /\ call.values[NameOf(call.entry, k)] \in {Default, No}
  BY <1>2 DEF Told
<1>8. {i \in Loose(call.entry, words) : i <= Len(words)} = loose
  BY <1>3, <1>4, <1>5
<1>9. /\ f \in [loose -> Pool(call.entry)]
      /\ \A i, j \in loose : i < j => f[i] < f[j]
      /\ \A i \in loose : call.values[arguments[f[i]].name] = words[i]
  BY <1>7, <1>8 DEF Placed, NameOf
<1>10. ASSUME NEW a \in Range(arguments)
       PROVE  \/ \E i \in named : of(i) = a
              \/ \E i \in loose : arguments[f[i]] = a
              \/ a.required /\ a.prompt
              \/ ~a.required /\ call.values[a.name] \in {Default, No}
  <2>1. PICK k \in DOMAIN arguments : a = arguments[k]
    BY DEF Range
  <2>2. CASE Given(call.entry, words, Len(words), f, k)
    BY <1>3, <1>9, <2>1, <2>2 DEF Given
  <2>3. CASE ~Given(call.entry, words, Len(words), f, k)
    BY <1>7, <2>1, <2>3 DEF NameOf
  <2> QED BY <2>2, <2>3
<1>11. \E g \in [loose -> Pool(call.entry)] :
          /\ \A i, j \in loose : i < j => g[i] < g[j]
          /\ \A i \in loose : call.values[arguments[g[i]].name] = words[i]
          /\ \A a \in Range(arguments) :
              \/ \E i \in named : of(i) = a
              \/ \E i \in loose : arguments[g[i]] = a
              \/ a.required /\ a.prompt
              \/ ~a.required /\ call.values[a.name] \in {Default, No}
  <2> HIDE DEF words, arguments, of
  <2> QED BY <1>9, <1>10
<1>12. QED
  BY <1>6, <1>11 DEF SaysWhatWasTyped, named, valued, loose

\* The handler is given what the line says: every named argument the value that
\* follows its flag, every other word to one argument each, in the order the
\* arguments are declared, and the default to the rest.
THEOREM Reading == SessionSpec => []SaysWhatWasTyped
<1>1. SessionInv => SaysWhatWasTyped
  BY SoundReading
<1>2. QED
  BY <1>1, SessionSound, PTL

=============================================================================
