---------------------------- MODULE MCCommandRun ----------------------------
(* All commands, with up to three options, for TLC.                            *)
EXTENDS CatalogConditions

LOCAL Files == INSTANCE FileCommands
LOCAL Groups == INSTANCE GroupCommands
LOCAL FlowsCommand == INSTANCE FlowsCommands
LOCAL Search == INSTANCE SearchCommands
LOCAL Timers == INSTANCE TimerCommands
LOCAL Bookmarks == INSTANCE BookmarkCommands
LOCAL Collections == INSTANCE CollectionCommands
LOCAL Endpoints == INSTANCE EndpointCommands
LOCAL Misc == INSTANCE MiscCommands

MCCatalog ==
    Files!FileCatalog \union Groups!GroupCatalog \union FlowsCommand!FlowsCatalog
    \union Search!SearchCatalog \union Timers!TimerCatalog
    \union Bookmarks!BookmarkCatalog \union Collections!CollectionCatalog
    \union Endpoints!EndpointCatalog \union Misc!MiscCatalog

\* The formats, --jmespath, -v, and statuses that are mapped.
MCSettings ==
    LET NotFound(x) == [h \in {404} |-> x] IN
    {Defaults,
     [Defaults EXCEPT !.output_format = "json"],
     [Defaults EXCEPT !.output_format = "json", !.jmespath_expr = TRUE],
     [Defaults EXCEPT !.output_format = "unix", !.http_status_map = NotFound(50)],
     [Defaults EXCEPT !.output_format = "json", !.verbosity = 1],
     [Defaults EXCEPT !.http_status_map = NotFound(0)]}
==============================================================================
