---------------------------- MODULE MCCliSession -----------------------------
(* CliSession with four modules that a program and its plugins import: a      *)
(* command with aliases, a confirmed one that is registered under two names,  *)
(* a group with an alias, and one that claims names and flags the others use. *)
EXTENDS CliSession

CONSTANTS main, plugin, adds, removes, groups, rivals

MCRegistries == {main, plugin}
MCModules == {adds, removes, groups, rivals}
MCFunctions == {"add", "rm", "wipe", "list", "a", "show"}

Parameter(name, kind, default) ==
    [name |-> name, kind |-> kind, default |-> default, injected |-> FALSE]
Context == [name |-> "ctx", kind |-> "str", default |-> FALSE, injected |-> TRUE]

MCParams == [f \in MCFunctions |->
    CASE f = "add" -> <<Parameter("to", "str", FALSE), Parameter("n", "int", TRUE)>>
      [] f = "rm" -> <<Parameter("to", "str", FALSE), Parameter("dry_run", "bool", TRUE)>>
      [] f = "wipe" -> <<Parameter("force", "bool", FALSE)>>
      [] f = "list" -> <<Context>>
      [] OTHER -> <<>>]

Declared(name, kind, prompt, again) ==
    [name |-> name, kind |-> kind, default |-> FALSE, prompt |-> prompt, again |-> again]

Arg(f, arg) == [do |-> "argument", fn |-> f, arg |-> arg]
Opt(f, flag) == [do |-> "option", fn |-> f, flag |-> flag]
Reg(f, name) == [do |-> "register", fn |-> f, name |-> name]
Do(what, f) == [do |-> what, fn |-> f]
Confirm(f, asks) == [do |-> "confirm", fn |-> f, asks |-> asks]
Group(f, path, alias_paths, name) ==
    [do |-> "group_register", fn |-> f, path |-> path, alias_paths |-> alias_paths, name |-> name]

Users == <<Plain("users")>>
U == <<Plain("u")>>

MCBody == [m \in MCModules |->
    CASE m = adds -> <<Arg("add", Declared("n", "int", FALSE, FALSE)),
                       Arg("add", Declared("to", "str", TRUE, TRUE)),
                       Opt("add", Short("a")), Opt("add", Long("add")), Reg("add", <<>>)>>
      [] m = removes -> <<Confirm("rm", TRUE), Do("dry_run", "rm"), Opt("rm", Short("r")),
                          Reg("rm", <<Plain("rm")>>), Reg("rm", <<Plain("erase")>>),
                          Confirm("wipe", TRUE), Reg("wipe", <<Plain("wipe")>>)>>
      [] m = groups -> <<Do("context_factory", "list"), Opt("list", Short("l")),
                         Group("list", Users, <<U>>, <<Plain("list")>>),
                         Opt("show", Short("a")),
                         Group("show", Append(Users, Plain("all")),
                               SubgroupAliases(Users, <<U>>, Plain("all"), <<Plain("rm")>>),
                               <<Plain("list")>>)>>
      [] m = rivals -> <<Confirm("show", FALSE), Reg("show", <<Long("add")>>),
                       Opt("a", Short("r")), Reg("a", <<Plain("a")>>),
                         Opt("show", Short("a")), Group("show", U, <<>>, <<Plain("list")>>),
                         Do("raise", "show")>>]

x == Plain("x")
one == Plain("1")

MCLines == {<<>>, <<Long("interactive")>>, <<Short("i"), x>>, <<Long("help")>>,
            <<Plain("help"), Plain("u")>>, <<Plain("exit")>>, <<Long("env")>>,
            <<Long("env"), x>>,
            <<Long("debug"), Long("env"), one, Plain("u"), Plain("list")>>,
            <<Plain("users"), Short("l")>>, <<Plain("u"), Plain("list"), Short("h")>>,
            <<Short("a"), Long("to"), x, one>>, <<Plain("add"), x, x>>, <<Plain("add"), Long("n"), one, x, Long("to"), x>>,
            <<Plain("a"), x, Long("to"), one>>, <<Plain("add"), Long("to")>>,
            <<Plain("add"), Long("cli-quiet"), Long("output"), x>>,
            <<Plain("rm"), Long("force"), Long("dry_run"), x>>, <<Short("r"), x>>,
            <<Plain("rm"), Long("output")>>,
            <<Plain("erase"), Long("dry_run"), x, Long("force")>>,
            <<Plain("wipe"), Long("force")>>}
MCAnswers == {x, one}
MCNumbers == {one}
MCContextFlags == {Long("env"), Long("debug")}
MCContextKind == [flag \in MCContextFlags |-> IF flag = Long("debug") THEN "bool" ELSE "int"]

Symmetry == Permutations(MCRegistries)
=============================================================================
