--------------------------- MODULE MCMessagePath ---------------------------
(***************************************************************************)
(* What happens to a message: the inbox (InboundQueue), what is remembered *)
(* of it (ChatHistory), the model that is asked (ModelClient), the browser *)
(* that reads a page for it (PageRender), the servers of its tools         *)
(* (ToolServers), the search of the web (WebSearch), what its links lead   *)
(* to (MediaResolver), the files it brings (FileLookup), and the answer    *)
(* that one attempt of the inbox's workers delivers (ReplyDelivery).       *)
(* The parts share no variable, so an interleaving shows nothing of any    *)
(* that it does not show alone; `part' says which of them runs.            *)
(***************************************************************************)
EXTENDS MCInboundQueue, ReplyDelivery, ChatHistory, ModelClient, PageRender,
        ToolServers, MediaResolver, WebSearch, FileLookup

CONSTANTS
    v1, v2,     \* videos
    u1, u2,     \* documents
    x1, x2      \* MCP servers

VARIABLE part

pathVars == <<vars, deliveryVars, historyVars, clientVars, renderVars, serverVars, resolverVars,
              searchVars, fileVars, part>>

MCMails ==
    {<<"bilibili">>, <<"xiaohongshu", "twitter">>, <<"douyin">>, <<"youtube", "page">>,
     <<"twitter", "twitter">>, <<"page", "twitter", "bilibili">>}

MCServers == <<x1, x2>>

\* Providers, and settings in which a time is out of its bounds, a provider
\* disabled, two of one name, or one of a kind nobody knows.
Site(name, type, length) ==
    [name |-> name, type |-> type, time |-> length, keyed |-> FALSE, disabled |-> FALSE, sound |-> TRUE]
MCDefaults == <<Site("a", "mcp", 2), Site("b", "mcp", 3), Site("c", "tavily", 2)>>
MCSettings ==
    {<<Site("a", "mcp", 9), [Site("b", "mcp", 1) EXCEPT !.disabled = TRUE], Site("c", "tavily", 0)>>,
     <<Site("c", "tavily", 1), Site("c", "mcp", 1)>>, <<Site("a", "other", 1)>>}

\* A group in which two files have one name, one whose file is on the fifth
\* message from the end, and one with a file that is not supported.
Refer(message, from, grouped, linked) ==
    [message |-> message, from |-> from, grouped |-> grouped, linked |-> linked]
MCLogs == {<<"a", "talk", "b", "talk", "talk">>, <<"b", "a", "a">>, <<"talk", "b", "picture", "a">>}
MCParcels ==
    {[mentions |-> TRUE, refs |-> <<Refer(1, "own", TRUE, FALSE), Refer(3, "recent", TRUE, FALSE)>>],
     [mentions |-> FALSE, refs |-> <<Refer(2, "own", FALSE, FALSE), Refer(2, "quoted", TRUE, FALSE),
                                     Refer(3, "recent", TRUE, FALSE)>>],
     [mentions |-> FALSE, refs |-> <<Refer(3, "quoted", TRUE, FALSE), Refer(1, "own", TRUE, TRUE)>>]}

\* The parts of the text, and conversations of four messages: instructions, two
\* others, and the current turn with or without an image.
MCChunks == <<2, 1>>
Prompt(p, text, image) == [priority |-> p, text |-> text, parts |-> image > 0, image |-> image]
MCConversations ==
    {<<Prompt(System, s, 0)>> \o others \o <<Prompt(Current, c, image)>> :
        s \in {5, 100}, c \in {1, 30}, image \in {0, 40},
        others \in [1 .. 2 -> {Prompt(p, text, 0) :
                       p \in {History, Memory, Plugin, Current}, text \in {9, 60}}]}

PathInit ==
    /\ Init /\ DeliveryInit /\ HistoryInit /\ ClientInit /\ RenderInit /\ ServersInit
    /\ ResolverInit /\ SearchInit /\ LookupInit
    /\ part \in {"inbox", "answer", "history", "model", "page", "tools", "links", "search",
                "files"}
    /\ inGroup \/ part = "answer"
    /\ mail = <<"bilibili">> \/ part = "links"
    /\ call.chat \/ part = "model"
    /\ settings = NoSettings \/ part = "search"
    /\ (Len(log) = 5 /\ napcat.disk = {}) \/ part = "files"

\* An answer that is settled stays so.
PathNext ==
    /\ UNCHANGED part
    /\ \/ part = "inbox" /\ Next
             /\ UNCHANGED <<deliveryVars, historyVars, clientVars, renderVars, serverVars, resolverVars, searchVars,
                         fileVars>>
       \/ part = "answer" /\ (DeliveryNext \/ (settled # "no" /\ UNCHANGED deliveryVars))
             /\ UNCHANGED <<vars, historyVars, clientVars, renderVars, serverVars, resolverVars, searchVars,
                         fileVars>>
       \/ part = "history" /\ HistoryNext
             /\ UNCHANGED <<vars, deliveryVars, clientVars, renderVars, serverVars, resolverVars, searchVars,
                         fileVars>>
       \/ part = "model" /\ ClientNext
             /\ UNCHANGED <<vars, deliveryVars, historyVars, renderVars, serverVars, resolverVars, searchVars,
                         fileVars>>
       \/ part = "page" /\ RenderNext
             /\ UNCHANGED <<vars, deliveryVars, historyVars, clientVars, serverVars, resolverVars, searchVars,
                         fileVars>>
       \/ part = "tools" /\ ServersNext
             /\ UNCHANGED <<vars, deliveryVars, historyVars, clientVars, renderVars, resolverVars, searchVars,
                         fileVars>>
       \/ part = "links" /\ ResolverNext
             /\ UNCHANGED <<vars, deliveryVars, historyVars, clientVars, renderVars, serverVars, searchVars,
                         fileVars>>
       \/ part = "search" /\ SearchNext
             /\ UNCHANGED <<vars, deliveryVars, historyVars, clientVars, renderVars, serverVars, resolverVars,
                         fileVars>>
       \/ part = "files" /\ FilesNext
             /\ UNCHANGED <<vars, deliveryVars, historyVars, clientVars, renderVars, serverVars, resolverVars,
                         searchVars>>

PathSpec == PathInit /\ [][PathNext]_pathVars
=============================================================================
