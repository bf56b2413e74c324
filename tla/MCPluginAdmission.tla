-------------------------- MODULE MCPluginAdmission --------------------------
(***************************************************************************)
(* PluginAdmission for TLC: plugin 1 is a WASM component, built read-only  *)
(* and built to mutate without asking for the permission; plugin 2 is a    *)
(* Python plugin, built right and built to use the adapter of plugin 1.    *)
(***************************************************************************)
EXTENDS PluginAdmission

CONSTANTS reads, mutates, own, borrows

Action(i, p, on, m) == [id |-> i, version |-> 1, plugin |-> p, adapter |-> <<on, 1>>, mutation |-> m]

Description(p, defs) ==
  [manifest |-> [id |-> p, version |-> 1, adapters |-> {<<p, 1>>},
                 actions |-> {a.id : a \in defs}, mutation |-> FALSE],
   adapters |-> {<<p, 1>>}, actions |-> defs]

Descriptions ==
  [c \in Component |->
     CASE c = reads   -> Description(1, {Action(1, 1, 1, FALSE)})
       [] c = mutates -> Description(1, {Action(1, 1, 1, TRUE)})
       [] c = own     -> Description(2, {Action(2, 2, 2, TRUE)})
       [] c = borrows -> Description(2, {Action(2, 2, 1, TRUE)})]

\* Plugin 2 is bundled, or off; nothing of it is signed.
SiteSets ==
  [p \in Plugin |->
     IF p = 1
     THEN [mode : {"wasm", "socket"},
           lock : [version : {1}, source : {"wasm"}, digest : {reads, mutates}],
           artifact : {reads, mutates}, signature : Trusted, installed : {reads, mutates}]
     ELSE [mode : {"off", "in_process"},
           lock : {[version |-> 1, source |-> "python", digest |-> None]},
           artifact : {own}, signature : {reads}, installed : {own, borrows}]]

\* One action of plugin 1 that no build of it declares, and that mutates.
CatalogFiles == {Action(3, 1, 1, TRUE)}
=============================================================================
