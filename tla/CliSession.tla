----------------------------- MODULE CliSession -----------------------------
(***************************************************************************)
(* A program of registers.cli: it fills its registries (CliRegistry), then *)
(* serves command lines, by run(), run_async() or the interactive shell.   *)
(*                                                                         *)
(* One command line is parsed, completed by prompts, confirmed and         *)
(* executed; one action is one round of the loop that does it.             *)
(***************************************************************************)
EXTENDS CliRegistry

CONSTANTS
    Lines,        \* command lines
    Answers,      \* what a user answers a prompt with
    Numbers,      \* words int() accepts
    ContextFlags, \* options of the context factory
    ContextKind   \* and what each of them takes: nothing if it is "bool"

ASSUME SessionAssumption ==
    /\ Lines \subseteq Seq(Word) /\ ContextFlags \subseteq Word
    /\ ContextKind \in [ContextFlags -> Kinds]
    /\ Answers \subseteq Word /\ Numbers \subseteq Word

VARIABLES
    shell,  \* the interactive shell that is open: its registry and its context
    call,   \* the command line being served
    last    \* observation: what became of the one before

vars == <<registry, shell, call, last>>

NoShell == [open |-> FALSE]
NoCall == [phase |-> "none"]

Yes == Plain("true")
No == Plain("false")
Default == Plain("default")

HelpAliases == {Plain("help"), Long("help"), Short("h")}
InteractiveAliases == {Long("interactive"), Short("i")}
OutputFlags == {Long("cli-output"), Long("output")}
QuietFlags == {Long("cli-quiet"), Long("quiet"), Long("cli-no-color"), Long("no-color")}
Own == {Long("cli-output"), Long("cli-quiet"), Long("cli-no-color")}

Outcomes == {"none", "shown", "exit 2", "raised", "failed", "returned"}

SessionInit == Init /\ shell = NoShell /\ call = NoCall /\ last = "none"

\* The program goes on defining commands.
Define ==
    /\ call = NoCall /\ ~shell.open
    /\ Next
    /\ last' = "none"
    /\ UNCHANGED <<shell, call>>

(***************************************************************************)
(* The words of a line: context options, builtins, the command.            *)
(***************************************************************************)

\* How many words the context option raw[i] takes, itself included.
Width(raw, i) == IF ContextKind[raw[i]] = "bool" THEN 1 ELSE 2

\* The context options are at the front, each where the one before it ends.
ContextOptions(r, raw) ==
    LET flags == {i \in DOMAIN raw : r \in factory /\ raw[i] \in ContextFlags} IN
    UNION {S \in SUBSET flags : \A i \in S : i = 1 \/ \E j \in S : j + Width(raw, j) = i}

ContextLength(r, raw) ==
    LET ends == {0} \union {i + Width(raw, i) - 1 : i \in ContextOptions(r, raw)} IN
    CHOOSE n \in ends : \A k \in ends : k <= n

\* One of them lacks its value, or the value does not convert.
Lacking(r, raw) ==
    \E i \in ContextOptions(r, raw) :
        /\ Width(raw, i) = 2
        /\ i < Len(raw) => ContextKind[raw[i]] = "int" /\ raw[i + 1] \notin Numbers

StripContext(r, raw) == SubSeq(raw, ContextLength(r, raw) + 1, Len(raw))

\* The longest prefix of the line that names a command.
Prefixed(r, raw) == {n \in 1 .. Len(raw) : Known(r, SubSeq(raw, 1, n))}
CommandLength(r, raw) == CHOOSE n \in Prefixed(r, raw) : \A k \in Prefixed(r, raw) : k <= n
Resolved(r, raw) == Get(r, SubSeq(raw, 1, CommandLength(r, raw)))
Rest(r, raw) == SubSeq(raw, CommandLength(r, raw) + 1, Len(raw))

Helpless(r, path) == ~Known(r, path) /\ ~HasGroup(r, path)
                     /\ Normal(path) \notin HelpReserved \union InteractiveReserved

\* The flag of an argument; words are compared with their underscores as dashes.
NamedFlags(entry) == {Long(a.name) : a \in Range(entry.arguments)}
Flagged(entry, word) == CHOOSE a \in Range(entry.arguments) : Long(a.name) = word

Answer(outcome) == last' = outcome /\ UNCHANGED <<registry, shell, call>>

Opened(r) == [open |-> TRUE, reg |-> r, context |-> r \in factory]

Serve(mode, context, entry, words) ==
    /\ call' = [phase |-> "strip", mode |-> mode, entry |-> entry, context |-> context,
                typed |-> words, words |-> words, kept |-> <<>>, forced |-> FALSE,
                answered |-> FALSE, tty |-> FALSE, next |-> 1, values |-> <<>>]
    /\ last' = "none"
    /\ UNCHANGED <<registry, shell>>

(***************************************************************************)
(* run()                                                                   *)
(***************************************************************************)
Free == call = NoCall /\ job = NoJob /\ ~shell.open

\* The ParseError of a context option reaches the caller of run().
ContextFails(r) ==
    /\ Free
    /\ \E raw \in Lines : Lacking(r, raw)
    /\ Answer("raised")

OpenShell(r) ==
    /\ Free
    /\ \E raw \in Lines : ~Lacking(r, raw) /\
        LET words == StripContext(r, raw) IN
        words = <<>> \/ (Len(words) = 1 /\ words[1] \in InteractiveAliases)
    /\ \/ shell' = Opened(r) /\ last' = "shown" /\ UNCHANGED <<registry, call>>
       \* The factory raises.
       \/ r \in factory /\ Answer("raised")

RunBuiltin(r) ==
    /\ Free
    /\ \E raw \in Lines : ~Lacking(r, raw) /\
        LET words == StripContext(r, raw) IN
        \/ words = <<>> /\ Answer("shown")
        \/ /\ words # <<>> /\ words[1] \in InteractiveAliases /\ Len(words) > 1
           /\ Answer("exit 2")
        \/ /\ words # <<>> /\ words[1] \in HelpAliases
           /\ Answer(IF Len(words) > 1 /\ Helpless(r, Tail(words)) THEN "exit 2" ELSE "shown")

AsksHelp(words) == \E i \in DOMAIN words : words[i] \in {Long("help"), Short("h")}

Run(r) ==
    /\ Free
    /\ \E raw \in Lines :
        LET words == StripContext(r, raw) IN
        /\ ~Lacking(r, raw)
        /\ words # <<>> /\ words[1] \notin InteractiveAliases \union HelpAliases
        /\ IF Prefixed(r, words) = {} THEN Answer("exit 2")
           ELSE IF AsksHelp(Rest(r, words)) THEN Answer("shown")
           ELSE Serve("run", r \in factory, Resolved(r, words), Rest(r, words))

(***************************************************************************)
(* run_async(): no interactive mode, and unknown commands raise.           *)
(***************************************************************************)
RunAsync(r) ==
    /\ Free
    /\ \E raw \in Lines :
        LET words == StripContext(r, raw) IN
        IF Lacking(r, raw) THEN Answer("raised")
        ELSE IF words = <<>> THEN Answer("shown")
        ELSE IF words[1] \in HelpAliases
        THEN Answer(IF Len(words) > 1 /\ Helpless(r, <<words[2]>>) THEN "raised" ELSE "shown")
        ELSE IF Prefixed(r, words) = {} THEN Answer("raised")
        ELSE IF AsksHelp(Rest(r, words)) THEN Answer("shown")
        ELSE Serve("async", r \in factory, Resolved(r, words), Rest(r, words))

(***************************************************************************)
(* InteractiveShell.run(): a line is a builtin or a command.               *)
(***************************************************************************)
ShellBuiltins == {Plain("exec"), Plain("exit"), Plain("quit"), Plain("commands")} \union HelpAliases

Prompting == shell.open /\ call = NoCall

\* exit and quit alone, or the end of the input.
LeaveShell ==
    /\ Prompting
    /\ shell' = NoShell /\ last' = "none"
    /\ UNCHANGED <<registry, call>>

ShellBuiltin ==
    /\ Prompting
    /\ \E raw \in Lines :
        /\ raw # <<>> /\ raw[1] \in ShellBuiltins
        /\ ~(Len(raw) = 1 /\ raw[1] \in {Plain("exit"), Plain("quit")})
    /\ Answer("shown")

\* A line of the shell has no context options and asks for no help of its own.
ShellDispatch ==
    /\ Prompting
    /\ \E raw \in Lines :
        /\ raw # <<>> /\ raw[1] \notin ShellBuiltins
        /\ IF Prefixed(shell.reg, raw) = {} THEN Answer("shown")
           ELSE Serve("shell", shell.context, Resolved(shell.reg, raw),
                      Rest(shell.reg, raw))

(***************************************************************************)
(* _strip_runtime_options(), a word at a time.                             *)
(***************************************************************************)
Busy(phase) == call.phase = phase

\* A ParseError: run() and run_async() exit with 2, the shell prints it.
Refuse ==
    /\ call' = NoCall
    /\ last' = IF call.mode = "shell" THEN "failed" ELSE "exit 2"
    /\ UNCHANGED <<registry, shell>>

Become(record) == call' = record /\ UNCHANGED <<registry, shell, last>>

\* The command's own argument of that name goes first; --cli-... never is one.
Runtime(word, flags) == word \in flags /\ (word \in Own \/ word \notin NamedFlags(call.entry))

\* Mutant: the command's own argument of that name is not looked at.
TakesForceAlways(entry) == entry.confirm

TakesForce(entry) == entry.confirm /\ Long("force") \notin NamedFlags(entry)

StripOption ==
    /\ Busy("strip") /\ call.words # <<>>
    /\ LET word == Head(call.words)
           drop(n) == SubSeq(call.words, n + 1, Len(call.words)) IN
       IF Runtime(word, OutputFlags)
       THEN IF Len(call.words) = 1 THEN Refuse
            ELSE Become([call EXCEPT !.words = drop(2)])
       ELSE IF Runtime(word, QuietFlags) THEN Become([call EXCEPT !.words = drop(1)])
       ELSE IF TakesForce(call.entry) /\ word = Long("force")
       THEN Become([call EXCEPT !.words = drop(1), !.forced = TRUE])
       ELSE Become([call EXCEPT !.words = drop(1), !.kept = Append(@, word)])

Stripped ==
    /\ Busy("strip") /\ call.words = <<>>
    /\ Become([call EXCEPT !.phase = "parse", !.words = call.kept])

(***************************************************************************)
(* parse_command_args(), a word at a time.                                 *)
(***************************************************************************)
Has(name) == name \in DOMAIN call.values
\* The arguments a word without a flag may be for.
Pool(entry) == {k \in DOMAIN entry.arguments : entry.arguments[k].kind # "bool"}
Coerces(a, word) == a.kind = "str" \/ word \in Numbers

\* set_value(): given twice, it must be given the same.
Conflicts(a, word) == Has(a.name) /\ call.values[a.name] # word

Took(a, word, n, next) ==
    [call EXCEPT !.words = SubSeq(@, n + 1, Len(@)), !.next = next,
                 !.values = IF Has(a.name) THEN @ ELSE With(@, {a.name}, word)]

ParseNamed ==
    /\ Busy("parse") /\ call.words # <<>>
    /\ Head(call.words) \in NamedFlags(call.entry)
    /\ LET a == Flagged(call.entry, Head(call.words)) IN
       IF a.kind = "bool"
       THEN IF Conflicts(a, Yes) THEN Refuse ELSE Become(Took(a, Yes, 1, call.next))
       ELSE IF \/ Len(call.words) = 1
               \/ call.words[2] \in NamedFlags(call.entry)
               \/ ~Coerces(a, call.words[2])
               \/ Conflicts(a, call.words[2])
            THEN Refuse
            ELSE Become(Took(a, call.words[2], 2, call.next))

\* Mutant: arguments given by name are not skipped.
OpenNext == {k \in Pool(call.entry) : k >= call.next}

\* The next argument, in order, that has no value yet.
Open == {k \in Pool(call.entry) : k >= call.next /\ ~Has(call.entry.arguments[k].name)}
First(set) == CHOOSE i \in set : \A j \in set : i <= j

\* Mutant: a positional word is not converted.
ParsePositionalRaw ==
    /\ Busy("parse") /\ call.words # <<>>
    /\ Head(call.words) \notin NamedFlags(call.entry)
    /\ IF Head(call.words).dash >= 2 \/ Open = {} THEN Refuse
       ELSE LET k == First(Open) IN
            Become(Took(call.entry.arguments[k], Head(call.words), 1, k + 1))

ParsePositional ==
    /\ Busy("parse") /\ call.words # <<>>
    /\ Head(call.words) \notin NamedFlags(call.entry)
    /\ IF Head(call.words).dash >= 2 \/ Open = {} THEN Refuse
       ELSE LET k == First(Open)
                a == call.entry.arguments[k] IN
            IF ~Coerces(a, Head(call.words)) THEN Refuse
            ELSE Become(Took(a, Head(call.words), 1, k + 1))

\* Defaults; False for an omitted flag; nothing yet for what will be prompted.
Filled ==
    LET missing == {a \in Range(call.entry.arguments) : ~Has(a.name) /\ ~a.required} IN
    [n \in DOMAIN call.values \union {a.name : a \in missing} |->
        IF Has(n) THEN call.values[n]
        ELSE IF \E a \in missing : a.name = n /\ a.kind = "bool" THEN No ELSE Default]

Unanswered(values) ==
    {k \in DOMAIN call.entry.arguments : call.entry.arguments[k].name \notin DOMAIN values}

\* Whether anyone can be asked: the shell has an input function, run() and
\* run_async() may have one, or a terminal.
Parsed ==
    /\ Busy("parse") /\ call.words = <<>>
    /\ IF \E k \in Unanswered(Filled) : ~call.entry.arguments[k].prompt THEN Refuse
       ELSE \E tty \in BOOLEAN :
            /\ call.mode = "shell" => tty
            /\ Become([call EXCEPT !.phase = "prompt", !.values = Filled, !.tty = tty])

(***************************************************************************)
(* _prompt_missing() and _confirm_command().                               *)
(***************************************************************************)
PromptMissing ==
    /\ Busy("prompt") /\ Unanswered(call.values) # {}
    /\ LET a == call.entry.arguments[First(Unanswered(call.values))] IN
       \/ ~call.tty /\ Refuse
       \/ /\ call.tty
          /\ \E answer \in Answers :
                IF Coerces(a, answer)
                THEN Become([call EXCEPT !.values = With(@, {a.name}, answer)])
                ELSE Refuse
       \/ call.tty /\ a.again /\ Refuse  \* the second answer differs

Prompted ==
    /\ Busy("prompt") /\ Unanswered(call.values) = {}
    /\ Become([call EXCEPT !.phase = "confirm"])

\* run() and run_async() build the context last, before they ask for confirmation,
\* and the factory raises; the shell has built its own when it was opened.
ContextRaises ==
    /\ Busy("confirm") /\ call.context /\ call.mode # "shell"
    /\ call' = NoCall /\ last' = "raised"
    /\ UNCHANGED <<registry, shell>>

ConfirmCommand ==
    /\ Busy("confirm")
    /\ IF ~call.entry.confirm \/ call.forced
       THEN Become([call EXCEPT !.phase = "call"])
       ELSE \/ call.tty /\ Become([call EXCEPT !.phase = "call", !.answered = TRUE])
            \* Not interactive, or the answer is no.
            \/ IF call.mode = "shell"
               THEN call' = NoCall /\ last' = "failed" /\ UNCHANGED <<registry, shell>>
               ELSE Refuse

(***************************************************************************)
(* The call.                                                               *)
(***************************************************************************)
Accepts(p) == \/ p.name \in DOMAIN call.values
              \/ p.injected /\ call.context
              \/ p.default

Fault ==
    /\ call' = NoCall
    /\ last' = IF call.mode = "shell" THEN "failed" ELSE "raised"
    /\ UNCHANGED <<registry, shell>>

\* Python itself refuses a call that lacks a parameter.
Execute ==
    /\ Busy("call")
    /\ IF \A p \in Range(Params[call.entry.fn]) : Accepts(p)
       THEN Become([call EXCEPT !.phase = "running"])
       ELSE Fault

HandlerReturns ==
    /\ Busy("running")
    /\ call' = NoCall /\ last' = "returned"
    /\ UNCHANGED <<registry, shell>>

HandlerRaises == Busy("running") /\ Fault

\* Ctrl-C, or the end of the input at a prompt for an argument: neither is an
\* error the shell handles, and the session ends with the command.
Interrupted ==
    /\ \/ Busy("prompt") /\ Unanswered(call.values) # {} /\ call.tty
       \/ Busy("confirm") /\ call.entry.confirm /\ ~call.forced /\ call.tty
       \/ Busy("running")
    /\ call' = NoCall /\ shell' = NoShell /\ last' = "raised"
    /\ UNCHANGED registry

SessionNext ==
    \/ Define
    \/ \E r \in Registries :
        ContextFails(r) \/ OpenShell(r) \/ RunBuiltin(r) \/ Run(r) \/ RunAsync(r)
    \/ LeaveShell \/ ShellBuiltin \/ ShellDispatch
    \/ StripOption \/ Stripped
    \/ ParseNamed \/ ParsePositional \/ Parsed
    \/ PromptMissing \/ Prompted \/ ContextRaises \/ ConfirmCommand
    \/ Execute \/ HandlerReturns \/ HandlerRaises \/ Interrupted

SessionSpec == SessionInit /\ [][SessionNext]_vars

-----------------------------------------------------------------------------
(***************************************************************************)
(* Properties.                                                             *)
(***************************************************************************)
\* A command line that is executed has a value for every argument of its
\* command, of the argument's type (parser.parse_command_args with
\* registry._prompt_missing); registries hold entries under their own names.
TypeOK ==
    /\ shell.open => shell.reg \in Registries /\ job = NoJob
    /\ last \in Outcomes /\ imported \subseteq Modules /\ factory \subseteq Registries
    /\ \A r \in Registries : \A n \in Names(r) : commands[r][n].name = n
    /\ call # NoCall /\ call.forced => TakesForce(call.entry)
    /\ call # NoCall /\ call.phase \in {"confirm", "call", "running"} =>
        /\ DOMAIN call.values = {a.name : a \in Range(call.entry.arguments)}
        /\ \A a \in Range(call.entry.arguments) :
            \/ a.kind = "bool" /\ call.values[a.name] \in {Yes, No}
            \/ a.kind # "bool" /\ Coerces(a, call.values[a.name])
            \/ ~a.required /\ call.values[a.name] = Default

\* What path stands for in registry r: command n, unless another one has that very
\* name, dashes and all; only then is it looked up first, and so it should be.
Reaches(r, path, n) == path \in Names(r) \/ (Known(r, path) /\ Get(r, path).name = n)

\* The groups of the program are named without dashes, as in all of its examples.
PlainGroups ==
    \A m \in Modules : \A d \in Range(Body[m]) : d.do = "group_register" =>
        d.path \in Keys /\ d.alias_paths \in Seq(Keys)

\* The flags that help prints for a command reach that command, whatever was
\* registered, merged or refused since: a command of one word by the flag alone, a
\* command of several by the flag behind some of the words in front of its last, its
\* group in general (the flag alone does not, though help prints it alone). The
\* exceptions: a flag that is another command's very name; a command of several words
\* whose registration or merge has not come to all of its aliases, or failed before it
\* did. No alias leads nowhere, and with groups named without dashes none is hidden
\* behind another command's name (registry.finalize_command, _register_alias_path,
\* CommandGroup.register, register_plugin and get).
PrintedFlagsWork ==
    \A r \in Registries :
        /\ \A a \in Aliases(r) :
            /\ aliases[r][a] \in Names(r)
            /\ PlainGroups => Get(r, a).name = aliases[r][a]
        /\ \A n \in Names(r) : \A o \in Range(commands[r][n].options) :
            IF Len(n) = 1 THEN Reaches(r, <<o>>, n)
            ELSE \/ n \in cut[r]
                 \/ job # NoJob /\ job.reg = r
                 \/ \E k \in 0 .. Len(n) - 1 : Reaches(r, Append(SubSeq(n, 1, k), o), n)

\* A registration, a group, a merge of a plugin, or one of them that fails
\* halfway, never changes what an accepted name or alias stands for; only
\* clear() does (registry._assert_command_slot_available, _assert_options_available,
\* _register_alias_path, register_plugin).
ResolutionIsStable ==
    [][\A r \in Registries : \A path \in Names(r) \union Aliases(r) :
        \/ commands'[r] = EmptyRegistry
        \/ Known(r, path)' /\ Get(r, path)' = Get(r, path)]_vars

\* A command with a confirmation runs only when its user agreed to this very
\* line: answered as asked, or typed --force where the command has no argument
\* of that name (registry._strip_runtime_options, _confirm_command, _execute_entry,
\* run_async and the shell's _execute_tokens).
ConsentGiven ==
    call.phase = "running" /\ call.entry.confirm =>
        \/ call.answered
        \/ /\ Long("force") \in Range(call.typed)
           /\ \A a \in Range(call.entry.arguments) : a.name # "force"

\* The handler is given what the line says: every named argument the value
\* that follows its flag, every other word to one argument each, in the order
\* the arguments are declared, and the default to the rest
\* (parser.parse_command_args).
SaysWhatWasTyped ==
    call.phase = "running" =>
        LET words == call.kept
            arguments == call.entry.arguments
            named == {i \in DOMAIN words : words[i] \in NamedFlags(call.entry)}
            of(i) == Flagged(call.entry, words[i])
            valued == {i \in named : of(i).kind # "bool"}
            loose == DOMAIN words \ (named \union {i + 1 : i \in valued}) IN
        /\ \A i \in named :
            call.values[of(i).name] = IF i \in valued THEN words[i + 1] ELSE Yes
        /\ \E f \in [loose -> Pool(call.entry)] :
            /\ \A i, j \in loose : i < j => f[i] < f[j]
            /\ \A i \in loose : call.values[arguments[f[i]].name] = words[i]
            /\ \A a \in Range(arguments) :
                \/ \E i \in named : of(i) = a
                \/ \E i \in loose : arguments[f[i]] = a
                \/ a.required /\ a.prompt
                \/ ~a.required /\ call.values[a.name] \in {Default, No}
=============================================================================
