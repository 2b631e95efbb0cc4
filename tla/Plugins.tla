------------------------------ MODULE Plugins ------------------------------
(***************************************************************************)
(* src/plugin.c: sets of plugins, which shared objects register when they  *)
(* are loaded.  The registry r holds the sets that are configured (known), *)
(* the directories and the plugins of each, the last one first, and the    *)
(* directories whose preloaded plugins have been loaded.                   *)
(***************************************************************************)
EXTENDS Integers, Sequences, SequencesExt, FiniteSets

CONSTANTS Sets,          \* the plugin sets of the program and its plugins
          Paths,         \* the initial paths of each set
          Directories,   \* the directories that exist
          Files          \* a sequence of shared objects: dir, preload, set and plugin, and what init registers

NoPlugins == [known |-> {}, dirs |-> [s \in Sets |-> <<>>], plugins |-> [s \in Sets |-> <<>>], preloaded |-> {}]

RECURSIVE PL_register(_, _, _)
load_plugin_file(r, file) == FoldLeft(LAMBDA x, reg : PL_register(x, reg[1], reg[2]), r, file.init)

\* The directory counts as preloaded only once all of its files are loaded.
preload_directory(r, dir) ==
  [FoldLeft(load_plugin_file, r, SelectSeq(Files, LAMBDA f : f.dir = dir /\ f.preload)) EXCEPT !.preloaded = @ \cup {dir}]

configure_directory(r, set, dir) ==
  IF dir \notin Directories THEN r
  ELSE [IF dir \in r.preloaded THEN r ELSE preload_directory(r, dir) EXCEPT !.dirs[set] = <<dir>> \o @]

\* The set is known before its directories are looked into.
configure_set(r, set) ==
  FoldLeft(LAMBDA x, dir : configure_directory(x, set, dir), [r EXCEPT !.known = @ \cup {set}], Paths[set])
Configured(r, set) == IF set \in r.known THEN r ELSE configure_set(r, set)
PL_preload_plugins(r, set) == Configured(r, set)

PL_register(r, set, plugin) == [Configured(r, set) EXCEPT !.plugins[set] = <<plugin>> \o @]

\* find_plugin: the registry afterwards, and whether the plugin is in it.
Registered(r, set, name) == \E i \in DOMAIN r.plugins[set] : r.plugins[set][i] = name
LoadedFor(r, set, name) ==
  FoldLeft(LAMBDA x, dir : FoldLeft(load_plugin_file, x,
                                    SelectSeq(Files, LAMBDA f : f.dir = dir /\ ~f.preload /\ f.set = set /\ f.plugin = name)),
           r, r.dirs[set])
Searched(r, set, name) == [reg |-> r, found |-> Registered(r, set, name)]
Sought(r, set, name, dont_load) ==
  IF Registered(r, set, name) \/ dont_load THEN Searched(r, set, name) ELSE Searched(LoadedFor(r, set, name), set, name)
find_plugin(r, set, name, dont_load) == Sought(Configured(r, set), set, name, dont_load)
=============================================================================
