---------------------------- MODULE CliRegistry -----------------------------
(***************************************************************************)
(* The command registries of registers.cli: modules are imported, their    *)
(* decorators stage arguments and options and register commands, groups    *)
(* register alias paths, and one registry is merged into another.          *)
(*                                                                         *)
(* A word of a command line is a record: how many dashes it starts with    *)
(* and the rest of it.  A command name, and the key of an alias, is the    *)
(* sequence of its words.  One action is one decorator, or one round of a  *)
(* loop over aliases or commands, so that an exception stops where the     *)
(* code stops and leaves what the code leaves.                             *)
(***************************************************************************)
EXTENDS Naturals, Sequences, SequencesExt, FiniteSets

CONSTANTS
    Registries,        \* CommandRegistry objects
    Modules,           \* plugin modules, and the program's own
    Body,              \* module -> the decorators it executes, in that order
    Functions,         \* the functions it decorates
    Params,            \* function -> its parameters
    MaxJobs            \* bound: imports, merges and clears

Plain(s) == [dash |-> 0, base |-> s]
Short(s) == [dash |-> 1, base |-> s]
Long(s) == [dash |-> 2, base |-> s]

\* A dictionary after an update: value under each of keys.
With(f, keys, value) == [k \in DOMAIN f \union keys |-> IF k \in keys THEN value ELSE f[k]]

Word == [dash : 0 .. 2, base : STRING]
Kinds == {"bool", "str", "int"}

\* Names of commands and groups, with dashes in front or without. Keys of aliases
\* have none in front.
Paths == Seq(Word) \ {<<>>}
Keys == {path \in Paths : path[1].dash = 0}

FunctionParameter == [name : STRING, kind : Kinds, default : BOOLEAN, injected : BOOLEAN]
Declaration == [name : STRING, kind : Kinds, default : BOOLEAN, prompt : BOOLEAN, again : BOOLEAN]
Decorators ==
    [do : {"argument"}, fn : Functions, arg : Declaration]
    \union [do : {"option"}, fn : Functions, flag : Word]
    \union [do : {"confirm"}, fn : Functions, asks : BOOLEAN]
    \union [do : {"dry_run", "context_factory", "raise"}, fn : Functions]
    \union [do : {"register"}, fn : Functions, name : Seq(Word)]
    \union [do : {"group_register"}, fn : Functions, path : Paths, alias_paths : Seq(Paths),
            name : Seq(Word)]

\* Python itself gives the parameters of a function different names.
ASSUME RegistryAssumption ==
    /\ MaxJobs \in Nat /\ Functions \subseteq STRING
    /\ Params \in [Functions -> Seq(FunctionParameter)]
    /\ \A fn \in Functions : IsInjective([i \in DOMAIN Params[fn] |-> Params[fn][i].name])
    /\ Body \in [Modules -> Seq(Decorators)]

VARIABLES
    commands,  \* _commands: registry -> command name -> entry
    aliases,   \* _aliases: registry -> alias -> command name
    factory,   \* registries with a context factory
    imported,  \* sys.modules
    job,       \* what the program is executing; an import also keeps what its
               \* decorators staged: _pending_args, _pending_options, _pending_config
    jobs,      \* jobs begun
    cut        \* observation: registry -> commands that were stored by a registration
               \* or a merge which failed before it came to all of their aliases

registry == <<commands, aliases, factory, imported, job, jobs, cut>>

EmptyRegistry == <<>>
Nothing == [args |-> <<>>, options |-> <<>>, confirm |-> FALSE, dry |-> FALSE]
NoJob == [kind |-> "none"]

Names(r) == DOMAIN commands[r]
Aliases(r) == DOMAIN aliases[r]

HelpReserved == {<<Plain("help")>>, <<Plain("h")>>}
InteractiveReserved == {<<Plain("interactive")>>, <<Plain("i")>>}

\* Dashes are stripped from the front of the path, not of its later words.
Normal(path) == [path EXCEPT ![1] = Plain(@.base)]

(***************************************************************************)
(* Lookup.                                                                 *)
(***************************************************************************)
Known(r, path) == path \in Names(r) \/ Normal(path) \in Aliases(r)

Get(r, path) ==
    IF path \in Names(r) THEN commands[r][path] ELSE commands[r][aliases[r][Normal(path)]]

HasGroup(r, path) ==
    LET Under(p) == \E n \in Names(r) : IsPrefix(p, n) IN
    \/ Under(Normal(path))
    \/ Normal(path) \in Aliases(r) /\ Under(aliases[r][Normal(path)])

(***************************************************************************)
(* Checks made before a command or an alias is stored.                     *)
(***************************************************************************)
\* Mutant: aliases are not looked at.
SlotFreeOfCommands(r, name) == Normal(name) \notin HelpReserved /\ name \notin Names(r)

SlotFree(r, name) ==
    /\ Normal(name) \notin HelpReserved
    /\ name \notin Names(r) \union Aliases(r)

\* Mutant: the alias of another command may be taken.
KeyFreeOfReserved(r, name, key) == key \notin HelpReserved \union InteractiveReserved

\* key may stand for command name: it is no other command's alias.
KeyFree(r, name, key) ==
    /\ key \notin HelpReserved \union InteractiveReserved
    /\ key \in Aliases(r) => aliases[r][key] = name

OptionsFree(r, name, options) ==
    \A i \in DOMAIN options :
        LET key == Normal(<<options[i]>>) IN
        /\ KeyFree(r, name, key)
        /\ key \in Names(r) => key = name

PathFree(r, name, path) ==
    /\ KeyFree(r, name, Normal(path))
    /\ path \in Names(r) => path = name

OptionKeys(options) == {Normal(<<options[i]>>) : i \in DOMAIN options}

Point(r, keys, name) ==
    aliases' = [aliases EXCEPT ![r] = With(@, keys, name)]

Store(r, entry) ==
    commands' = [commands EXCEPT ![r] = With(@, {entry.name}, entry)]

(***************************************************************************)
(* An import, and one decorator of the module imported.                    *)
(***************************************************************************)
Init ==
    /\ commands = [r \in Registries |-> EmptyRegistry]
    /\ aliases = [r \in Registries |-> EmptyRegistry]
    /\ factory = {}
    /\ imported = {} /\ job = NoJob /\ jobs = 0
    /\ cut = [r \in Registries |-> {}]

Begin == job = NoJob /\ jobs < MaxJobs /\ jobs' = jobs + 1

\* A module executed again defines new functions: what is staged for those of an
\* import that failed is out of reach, and is dropped here with the job.
Load(m, r) ==
    /\ Begin /\ m \notin imported
    /\ job' = [kind |-> "import", module |-> m, reg |-> r, todo |-> Body[m],
                staged |-> [f \in Functions |-> Nothing]]
    /\ UNCHANGED <<commands, aliases, factory, imported, cut>>

Loaded ==
    /\ job.kind = "import" /\ job.todo = <<>>
    /\ imported' = imported \union {job.module}
    /\ job' = NoJob
    /\ UNCHANGED <<commands, aliases, factory, jobs, cut>>

\* The commands stored by the job that still lack aliases.
Owed ==
    IF job.kind = "import"
    THEN {d.target : d \in {e \in Range(job.todo) : e.do = "alias"}}
    ELSE {aliases[job.from][a] : a \in job.links} \ job.names

\* load_plugins logs the exception and goes on with the next module.
Fail == job' = NoJob /\ cut' = [cut EXCEPT ![job.reg] = @ \union Owed]
Goes(record) == job' = [record EXCEPT !.todo = Tail(@)] /\ UNCHANGED cut
\* A decorator returns the function it was given.
NextLine == Goes(job)

Staged(fn) == job.staged[fn]

\* The decorators of a module act on the registry that use_registry has routed
\* them to while it is imported.
InUse == job.reg

\* The next decorator the module executes.
At(what) ==
    /\ job.kind = "import" /\ job.todo # <<>>
    /\ Head(job.todo).do = what

\* Decorators run bottom-up; what they stage is put in front.
StageArgument ==
    LET d == Head(job.todo)
        args == Staged(d.fn).args IN
    /\ At("argument")
    /\ IF \E i \in DOMAIN args : args[i].name = d.arg.name
       THEN Fail
       ELSE Goes([job EXCEPT !.staged[d.fn].args = <<d.arg>> \o @])
    /\ UNCHANGED <<commands, aliases, factory, imported, jobs>>

StageOption ==
    LET d == Head(job.todo)
        options == Staged(d.fn).options IN
    /\ At("option")
    /\ IF d.flag.dash = 0 \/ \E i \in DOMAIN options : options[i] = d.flag
       THEN Fail
       ELSE Goes([job EXCEPT !.staged[d.fn].options = <<d.flag>> \o @])
    /\ UNCHANGED <<commands, aliases, factory, imported, jobs>>

\* An empty message asks nothing.
StageConfirm ==
    /\ At("confirm")
    /\ Goes([job EXCEPT !.staged[Head(job.todo).fn].confirm = Head(job.todo).asks])
    /\ UNCHANGED <<commands, aliases, factory, imported, jobs>>

StageDryRun ==
    /\ At("dry_run")
    /\ Goes([job EXCEPT !.staged[Head(job.todo).fn].dry = TRUE])
    /\ UNCHANGED <<commands, aliases, factory, imported, jobs>>

ContextFactory ==
    /\ At("context_factory") /\ NextLine
    /\ factory' = factory \union {InUse}
    /\ UNCHANGED <<commands, aliases, imported, jobs>>

\* The module's own code raises.
Raise ==
    /\ At("raise") /\ Fail
    /\ UNCHANGED <<commands, aliases, factory, imported, jobs>>

(***************************************************************************)
(* register() and CommandGroup.register().                                 *)
(***************************************************************************)
DeriveCommandName(options, fn) ==
    LET long == {i \in DOMAIN options : options[i].dash = 2} IN
    <<Plain(IF long = {} THEN fn ELSE options[CHOOSE i \in long : \A j \in long : i <= j].base)>>

Argument(name, kind, required, prompt, again) ==
    [name |-> name, kind |-> kind, required |-> required, prompt |-> prompt, again |-> again]

\* A parameter that is Optional counts as one with a default.
Required(kind, default) == ~default /\ kind # "bool"

\* The parameters that are neither declared nor injected, and the i-th of them.
Undeclared(fn, args) ==
    {k \in DOMAIN Params[fn] :
        ~Params[fn][k].injected /\ \A i \in DOMAIN args : args[i].name # Params[fn][k].name}
Nth(set, i) == CHOOSE k \in set : Cardinality({j \in set : j <= k}) = i

\* A staged argument takes the type given to the decorator, str if none was.
DeclaredArgument(fn, a) ==
    LET parameter == CHOOSE p \in Range(Params[fn]) : p.name = a.name IN
    Argument(a.name, a.kind, Required(a.kind, a.default \/ parameter.default), a.prompt, a.again)

InferredArgument(p) == Argument(p.name, p.kind, Required(p.kind, p.default), FALSE, FALSE)

BuildArguments(fn, args) ==
    LET rest == Undeclared(fn, args) IN
    [i \in DOMAIN args |-> DeclaredArgument(fn, args[i])]
    \o [i \in 1 .. Cardinality(rest) |-> InferredArgument(Params[fn][Nth(rest, i)])]

WithDryRun(arguments) ==
    LET dry == Argument("dry_run", "bool", FALSE, FALSE, FALSE)
        at == {i \in DOMAIN arguments : arguments[i].name = "dry_run"} IN
    IF at = {} THEN Append(arguments, dry)
    ELSE [i \in DOMAIN arguments |-> IF i \in at THEN dry ELSE arguments[i]]

Parameters(fn) == {p.name : p \in Range(Params[fn])}

Entry(name, fn) ==
    LET s == Staged(fn)
        arguments == BuildArguments(fn, s.args) IN
    [name |-> name, fn |-> fn, options |-> s.options, confirm |-> s.confirm,
     arguments |-> IF s.dry THEN WithDryRun(arguments) ELSE arguments]

\* What is staged is taken before anything is checked.
Taken(fn) == [job EXCEPT !.staged[fn] = Nothing]

Fits(fn) == {a.name : a \in Range(Staged(fn).args)} \subseteq Parameters(fn)

Register ==
    LET d == Head(job.todo)
        options == Staged(d.fn).options
        name == IF d.name # <<>> THEN d.name ELSE DeriveCommandName(options, d.fn) IN
    /\ At("register")
    /\ IF Fits(d.fn) /\ SlotFree(InUse, name) /\ OptionsFree(InUse, name, options)
       THEN /\ Goes(Taken(d.fn))
            /\ Store(InUse, Entry(name, d.fn))
            /\ Point(InUse, OptionKeys(options), name)
       ELSE Fail /\ UNCHANGED <<commands, aliases>>
    /\ UNCHANGED <<factory, imported, jobs>>

\* Alias paths of a group: its own, and those of the groups around it.
SubgroupAliases(path, alias_paths, name, own) ==
    [i \in DOMAIN alias_paths |-> Append(alias_paths[i], name)]
    \o [j \in DOMAIN own |-> Append(path, own[j])]
    \o FlattenSeq([i \in DOMAIN alias_paths |->
                    [j \in DOMAIN own |-> Append(alias_paths[i], own[j])]])

\* The command is stored first; the alias paths follow, one by one: those that end
\* in the name of the command, then, option by option, those that end in its flag.
GroupRegister ==
    LET d == Head(job.todo)
        options == Staged(d.fn).options
        leaf == IF d.name # <<>> THEN d.name ELSE DeriveCommandName(options, d.fn)
        name == d.path \o leaf
        under(paths, word) == [do |-> "alias", target |-> name,
                               paths |-> [i \in DOMAIN paths |-> paths[i] \o word]]
        later == (IF d.alias_paths = <<>> THEN <<>> ELSE <<under(d.alias_paths, leaf)>>)
                 \o [k \in DOMAIN options |-> under(<<d.path>> \o d.alias_paths, <<options[k]>>)] IN
    /\ At("group_register")
    /\ IF Fits(d.fn) /\ SlotFree(InUse, name)
       THEN /\ job' = [Taken(d.fn) EXCEPT !.todo = later \o Tail(@)]
            /\ Store(InUse, Entry(name, d.fn)) /\ UNCHANGED cut
       ELSE Fail /\ UNCHANGED commands
    /\ UNCHANGED <<aliases, factory, imported, jobs>>

RegisterAliasPath ==
    LET d == Head(job.todo)
        path == Head(d.paths)
        later == IF Tail(d.paths) = <<>> THEN <<>> ELSE <<[d EXCEPT !.paths = Tail(@)]>> IN
    /\ At("alias")
    /\ IF PathFree(InUse, d.target, path)
       THEN /\ job' = [job EXCEPT !.todo = later \o Tail(@)]
            /\ Point(InUse, {Normal(path)}, d.target) /\ UNCHANGED cut
       ELSE Fail /\ UNCHANGED aliases
    /\ UNCHANGED <<commands, factory, imported, jobs>>

(***************************************************************************)
(* register_plugin(): the commands of q, then its aliases, into r.  The    *)
(* order of insertion is abstracted to any order.                          *)
(***************************************************************************)
RegisterPlugin(q, r) ==
    /\ Begin /\ q # r
    /\ Names(q) # {}
    /\ job' = [kind |-> "merge", reg |-> r, from |-> q, names |-> Names(q), links |-> Aliases(q)]
    /\ UNCHANGED <<commands, aliases, factory, imported, cut>>

MergeCommand ==
    /\ job.kind = "merge"
    /\ \E n \in job.names :
        LET entry == commands[job.from][n]
            flat == Len(n) = 1 IN
        IF SlotFree(job.reg, n) /\ (flat => OptionsFree(job.reg, n, entry.options))
        THEN /\ Store(job.reg, entry)
             /\ Point(job.reg, IF flat THEN OptionKeys(entry.options) ELSE {}, n)
             /\ job' = [job EXCEPT !.names = @ \ {n}]
             /\ cut' = [cut EXCEPT ![job.reg] = @ \union ({n} \cap cut[job.from])]
        ELSE Fail /\ UNCHANGED <<commands, aliases>>
    /\ UNCHANGED <<factory, imported, jobs>>

MergeAlias ==
    /\ job.kind = "merge" /\ job.names = {}
    /\ \E a \in job.links :
        LET target == aliases[job.from][a]
            Done == job' = [job EXCEPT !.links = @ \ {a}] /\ UNCHANGED cut IN
        IF target \notin Names(job.reg)
        THEN Done /\ UNCHANGED aliases
        ELSE IF /\ a \in Names(job.reg) => a = target
                /\ a \in Aliases(job.reg) => aliases[job.reg][a] = target
             THEN Done /\ Point(job.reg, {a}, target)
             ELSE Fail /\ UNCHANGED aliases
    /\ UNCHANGED <<commands, factory, imported, jobs>>

Merged ==
    /\ job.kind = "merge" /\ job.names = {} /\ job.links = {}
    /\ job' = NoJob
    /\ UNCHANGED <<commands, aliases, factory, imported, jobs, cut>>

Clear(r) ==
    /\ Begin /\ Names(r) # {}
    /\ commands' = [commands EXCEPT ![r] = EmptyRegistry]
    /\ aliases' = [aliases EXCEPT ![r] = EmptyRegistry]
    /\ factory' = factory \ {r}
    /\ cut' = [cut EXCEPT ![r] = {}]
    /\ UNCHANGED <<imported, job>>

Next ==
    \/ \E m \in Modules, r \in Registries : Load(m, r)
    \/ StageArgument \/ StageOption \/ StageConfirm \/ StageDryRun
    \/ ContextFactory \/ Raise
    \/ Register \/ GroupRegister \/ RegisterAliasPath
    \/ Loaded
    \/ \E q, r \in Registries : RegisterPlugin(q, r)
    \/ MergeCommand \/ MergeAlias \/ Merged
    \/ \E r \in Registries : Clear(r)

Spec == Init /\ [][Next]_registry
=============================================================================
