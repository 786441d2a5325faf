------------------------ MODULE MCPluginConversation ------------------------
(***************************************************************************)
(* Small instances of PluginConversation: two plugins in two scopes, and a *)
(* sample of the lines a plugin may write, one for each check and then the *)
(* acceptable ones.                                                        *)
(***************************************************************************)
EXTENDS PluginConversation

CONSTANTS viewer, exporter, view, export, page, data

MCOutput(last, escapes) == [last |-> last, escapes |-> escapes]

MCOutputs == {MCOutput(page, FALSE), MCOutput(data, FALSE), MCOutput(page, TRUE)}

PageGlob == [fits |-> {page}, across |-> FALSE]
AnyGlob  == [fits |-> {page, data}, across |-> TRUE]

MCGlobs == {PageGlob, AnyGlob}

Installed(n, intact, actions, graph_read, globs) ==
    [name |-> n, intact |-> intact, actions |-> actions,
     graph_read |-> graph_read, globs |-> globs]

GoodViewer   == Installed(viewer, TRUE, {view}, TRUE, {PageGlob})
WideViewer   == Installed(viewer, TRUE, {view, export}, TRUE, {AnyGlob})
SpoiltViewer == Installed(viewer, FALSE, {view}, TRUE, {PageGlob})
Exporter     == Installed(exporter, TRUE, {export}, FALSE, {AnyGlob})
Reader       == Installed(exporter, TRUE, {export}, TRUE, {PageGlob})

MCStores == {<<<<>>, <<>>>>, <<<<GoodViewer>>, <<WideViewer>>>>,
             <<<<SpoiltViewer>>, <<GoodViewer>>>>, <<<<Exporter>>, <<GoodViewer>>>>,
             <<<<Exporter, WideViewer>>, Unreadable>>, <<Unreadable, <<GoodViewer>>>>,
             <<<<Reader, GoodViewer>>, <<>>>>}

Blank == [version |-> 1, reply |-> "other", plugin |-> Unstated, actions |-> {},
          code |-> Unstated, status |-> "other", outputs |-> NoList]

Hello(n, actions) == [Blank EXCEPT !.reply = "handshake", !.plugin = n, !.actions = actions]
Done(status, outputs) == [Blank EXCEPT !.reply = "invoke", !.status = status, !.outputs = outputs]

MCReplies ==
    {NotJson, Blank, [Blank EXCEPT !.version = Unstated], [Blank EXCEPT !.version = 2],
     Hello(viewer, {view}), Hello(viewer, {}), Hello(viewer, {view, export}),
     Hello(exporter, {export}), [Hello(viewer, {view}) EXCEPT !.version = 2],
     [Blank EXCEPT !.reply = "error"],
     [Blank EXCEPT !.reply = "error", !.code = "PLUGIN_ACTION_UNKNOWN"],
     Done("complete", NoList), Done("complete", {}), Done("partial", {}), Done("other", {}),
     [Done("complete", {}) EXCEPT !.version = 2], Done("complete", {NotText})}
    \cup {Done("complete", {o}) : o \in MCOutputs}
    \cup {Done("complete", {MCOutput(page, FALSE), o}) : o \in MCOutputs}

=============================================================================
