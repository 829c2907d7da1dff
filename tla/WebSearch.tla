----------------------------- MODULE WebSearch -----------------------------
(***************************************************************************)
(* web.json (modules/webconf.go, cli/web.go), the daemon that loads it     *)
(* when it starts and again on each SIGHUP, and the calls of web_search    *)
(* (modules/web.go) that are made meanwhile.                               *)
(*                                                                         *)
(* Brave stands for both of the providers that need a key.  A result page  *)
(* is a sequence of results of which some have no title or no link; how    *)
(* the four parsers read a page is left out.                               *)
(***************************************************************************)
EXTENDS Naturals, Sequences

CONSTANTS
    WebCommand,        \* runs of mininaru web
    Search,         \* calls of web_search
    Pages,          \* result pages, as sequences of "good" and "bad" results
    Limits,         \* the limits asked for
    MaxWebWrites    \* bound: how often web.json is written

VARIABLES
    file,           \* web.json
    writes,         \* how often it has been written
    editing,        \* what each command is doing
    draft,          \* the configuration each has loaded
    up,             \* the daemon has started
    loading,        \* WebLoad in the daemon: its next step, or "no"
    buffer,         \* the file it has read
    web,            \* the configuration in the daemon
    garbled,        \* the last load found a file it could not read
    offered,        \* what the file has offered since that load began
    searching,      \* what each search is doing
    config,         \* the configuration each has copied
    answer

vars == <<file, writes, editing, draft, up, loading, buffer, web, garbled, offered,
          searching, config, answer>>

Config == [provider : {"duckduckgo", "searxng", "brave"}, endpoint : {"", "http"}, key : {"", "key"}]
defaultWeb == [provider |-> "duckduckgo", endpoint |-> "", key |-> ""]
Missing == [defaultWeb EXCEPT !.provider = "missing"]
Garbled == [defaultWeb EXCEPT !.provider = "garbled"]

WebValidate(c) ==
    /\ c.provider \in {"duckduckgo", "searxng", "brave"}
    /\ c.provider = "searxng" => c.endpoint # ""
    /\ c.provider = "brave" => c.key # ""

\* Broken: a configuration is taken as it is.
AcceptAny(c) == c

webAccept(c) == IF WebValidate(c) THEN c ELSE defaultWeb

\* What a program makes of the file as it is: no file is the default one.
Offers(f) == IF f \in {Missing, Garbled} THEN defaultWeb ELSE webAccept(f)

First(n, list) == SubSeq(list, 1, IF Len(list) < n THEN Len(list) ELSE n)

\* What is sent for a request: braveRequest asks for as many as are wanted,
\* the two others cannot.
Sent(provider, page, limit) == IF provider = "brave" THEN First(limit, page) ELSE page

\* collectSearchResults, for duckParse: what has no title or no link is passed
\* over, and it stops when it has enough.
Collected(page, limit) ==
    LET list[i \in 0 .. Len(page)] ==
            IF i = 0 THEN <<>>
            ELSE IF Len(list[i - 1]) >= limit \/ page[i] = "bad" THEN list[i - 1]
            ELSE Append(list[i - 1], page[i])
    IN  list[Len(page)]

\* searxParse, braveParse: all that has a title and a link.
Good(page) == Collected(page, Len(page))

\* Broken: whoever parses cuts the page, not what is good of it.
CutPage(provider, page, limit) == Good(First(limit, page))

\* The provider's Parse, and what searchRun leaves of it.
Results(provider, page, limit) ==
    First(limit, IF provider = "duckduckgo" THEN Collected(page, limit) ELSE Good(page))

Nothing == [page |-> <<>>, limit |-> 0, results |-> <<>>]

TypeOK ==
    /\ file \in Config \cup {Missing, Garbled}
    /\ editing \in [WebCommand -> {"no", "creating", "editing"}]
    /\ draft \in [WebCommand -> Config]
    /\ up \in BOOLEAN
    /\ loading \in {"no", "reset", "creating", "read"}
    /\ buffer \in Config /\ web \in Config
    /\ garbled \in BOOLEAN
    /\ searching \in [Search -> {"no", "asking", "answered", "failed"}]
    /\ config \in [Search -> Config]

Init ==
    /\ file \in {Missing, defaultWeb}
    /\ writes = 0
    /\ editing = [c \in WebCommand |-> "no"]
    /\ draft = [c \in WebCommand |-> defaultWeb]
    /\ up = FALSE
    /\ loading = "reset"
    /\ buffer = defaultWeb
    /\ web = defaultWeb
    /\ garbled = FALSE
    /\ offered = {defaultWeb}
    /\ searching = [s \in Search |-> "no"]
    /\ config = [s \in Search |-> defaultWeb]
    /\ answer = [s \in Search |-> Nothing]

-----------------------------------------------------------------------------
(* web.json *)

commandVars == <<editing, draft>>
daemonVars == <<up, loading, buffer, web, garbled>>
searchVars == <<searching, config, answer>>

Write(f) ==
    /\ writes < MaxWebWrites /\ writes' = writes + 1
    /\ file' = f
    /\ offered' = offered \cup {Offers(f)}

EditByHand ==
    /\ \E f \in Config \cup {Missing, Garbled} : f # file /\ Write(f)
    /\ UNCHANGED <<commandVars, daemonVars, searchVars>>

\* webLoadExecute.  With a file that is no JSON no command runs.
Open(c) ==
    /\ editing[c] = "no" /\ file # Garbled
    /\ IF file = Missing
       THEN editing' = [editing EXCEPT ![c] = "creating"] /\ UNCHANGED draft
       ELSE editing' = [editing EXCEPT ![c] = "editing"]
            /\ draft' = [draft EXCEPT ![c] = webAccept(file)]
    /\ UNCHANGED <<file, writes, offered, daemonVars, searchVars>>

Create(c) ==
    /\ editing[c] = "creating"
    /\ editing' = [editing EXCEPT ![c] = "editing"]
    /\ draft' = [draft EXCEPT ![c] = defaultWeb]
    /\ Write(defaultWeb)
    /\ UNCHANGED <<daemonVars, searchVars>>

\* webApply: one setting is changed, and saved if the whole is valid.
Apply(c) ==
    /\ editing[c] = "editing"
    /\ \E new \in Config :
          /\ \/ new = [draft[c] EXCEPT !.provider = new.provider]
             \/ new = [draft[c] EXCEPT !.endpoint = new.endpoint]
             \/ new = [draft[c] EXCEPT !.key = new.key]
          /\ IF WebValidate(new) THEN Write(new) ELSE UNCHANGED <<file, writes, offered>>
    /\ editing' = [editing EXCEPT ![c] = "no"]
    /\ draft' = [draft EXCEPT ![c] = defaultWeb]
    /\ UNCHANGED <<daemonVars, searchVars>>

-----------------------------------------------------------------------------
(* The daemon *)

\* The SIGHUP handler calls WebReload, which begins with the default.
Reload ==
    /\ loading = "no"
    /\ loading' = "reset"
    /\ web' = defaultWeb
    /\ offered' = {Offers(file)}
    /\ UNCHANGED <<file, writes, up, buffer, garbled, commandVars, searchVars>>

\* With a file that is no JSON the daemon does not start; one that runs goes
\* on with the default.
ReadFile ==
    /\ loading = "reset" /\ (file = Garbled => up)
    /\ garbled' = (file = Garbled)
    /\ loading' = CASE file = Missing -> "creating" [] file = Garbled -> "no" [] OTHER -> "read"
    /\ buffer' = IF file \in Config THEN file ELSE defaultWeb
    /\ UNCHANGED <<file, writes, up, web, offered, commandVars, searchVars>>

CreateFile ==
    /\ loading = "creating"
    /\ loading' = "read"
    /\ Write(defaultWeb)
    /\ UNCHANGED <<up, buffer, web, garbled, commandVars, searchVars>>

Loaded ==
    /\ loading = "read"
    /\ loading' = "no"
    /\ up' = TRUE
    /\ web' = webAccept(buffer)
    /\ UNCHANGED <<file, writes, buffer, garbled, offered, commandVars, searchVars>>

-----------------------------------------------------------------------------
(* Searches *)

\* searchRun: the configuration is copied under the lock, all of it.
Ask(s) ==
    /\ up /\ searching[s] = "no"
    /\ searching' = [searching EXCEPT ![s] = "asking"]
    /\ config' = [config EXCEPT ![s] = web]
    /\ UNCHANGED <<file, writes, offered, commandVars, daemonVars, answer>>

\* The provider answers with a page, or there is none, or nothing good in it.
Answer(s) ==
    /\ searching[s] = "asking"
    /\ \E full \in Pages, limit \in Limits :
          LET page == Sent(config[s].provider, full, limit)
              results == Results(config[s].provider, page, limit)
          IN  IF results = <<>>
              THEN searching' = [searching EXCEPT ![s] = "failed"] /\ UNCHANGED answer
              ELSE /\ searching' = [searching EXCEPT ![s] = "answered"]
                   /\ answer' = [answer EXCEPT ![s] =
                                    [page |-> page, limit |-> limit, results |-> results]]
    /\ config' = [config EXCEPT ![s] = defaultWeb]
    /\ UNCHANGED <<file, writes, offered, commandVars, daemonVars>>

Next ==
    \/ EditByHand \/ Reload \/ ReadFile \/ CreateFile \/ Loaded
    \/ \E c \in WebCommand : Open(c) \/ Create(c) \/ Apply(c)
    \/ \E s \in Search : Ask(s) \/ Answer(s)

Spec == Init /\ [][Next]_vars

-----------------------------------------------------------------------------
(* Properties *)

(***************************************************************************)
(* Whatever is done to web.json while the daemon loads it, a search asks   *)
(* with a configuration that some provider can work with.  Once a load is  *)
(* over it is one the file has offered, whole, since the load began; only  *)
(* while the daemon loads, or with a file it cannot read, is it the        *)
(* default.                                                                *)
(***************************************************************************)
SearchesConfigured ==
    /\ \A s \in Search : searching[s] = "asking" => WebValidate(config[s])
    /\ IF loading # "no" \/ garbled THEN web = defaultWeb ELSE web \in offered

(***************************************************************************)
(* An answer holds as many results as were asked for, unless the page has  *)
(* no more that are good, and is never empty.                              *)
(***************************************************************************)
ResultsFill ==
    \A s \in Search :
        searching[s] = "answered" =>
            /\ answer[s].results # <<>> /\ Len(answer[s].results) <= answer[s].limit
            /\ Len(answer[s].results) < answer[s].limit => answer[s].results = Good(answer[s].page)

WebInv == TypeOK /\ SearchesConfigured /\ ResultsFill

=============================================================================
