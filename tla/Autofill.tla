-------------------------------- MODULE Autofill --------------------------------
(***************************************************************************)
(* Filling a login form: the content script finds the form, asks which     *)
(* entries match the page, lets the user pick one, asks for trust in the   *)
(* site, and the background page sends the values to the tab.              *)
(*                                                                         *)
(* Source: autofill/content.ts, detector.ts, matcher.ts, filler.ts,        *)
(* config/trusted-hosts.ts and the handlers of background/index.ts.  An    *)
(* answer arrives in the step that handles the request: nothing the script *)
(* does before depends on it.  Where menus and markers are drawn, and the  *)
(* capture of submitted logins (LoginCapture), are left out.               *)
(***************************************************************************)
EXTENDS Naturals, Sequences, SequencesExt, FiniteSets

CONSTANTS
    Tabs,
    Pages,          \* names of pages
    Content,        \* of each page: [url, host, domain, inputs], an input is
                    \* [type, auto, name, label, place, form, shown]
    Entries,        \* names of entries
    Facts,          \* of each entry: [urls, title], urls of [url, host, domain], title the hosts named in it
    MaxLoads,       \* bound: pages a tab loads
    MaxPicks,       \* bound: entries the user picks
    None

VARIABLES
    open,           \* the vault is unlocked
    entries,        \* the entries in it
    page,           \* the page in each tab
    loads,          \* the number of that page, and of all before it
    script,         \* the state of its content script
    requests,       \* of each tab, to the background page
    trusted,        \* the domains in storage
    revoking,       \* what Options has read of them, or None
    granted,        \* history: domains the user trusted
    filled,         \* history: what was filled in
    popup,          \* the popup and what it is doing
    picks

vars == <<open, entries, page, loads, script, requests, trusted, revoking, granted, filled, popup, picks>>

----------------------------------------------------------------------------
(* detector.ts.  A form is the places of its two fields, 0 for none.       *)

Inputs(p) == Content[p].inputs
Shown(p, Is(_)) == {i \in DOMAIN Inputs(p) : Inputs(p)[i].shown /\ Is(Inputs(p)[i])}
First(places) == IF places = {} THEN 0 ELSE CHOOSE i \in places : \A j \in places : i <= j
Nearest(places) == IF places = {} THEN 0 ELSE CHOOSE i \in places : \A j \in places : i >= j

IsPassword(i) == i.type = "password"
IsTextLike(i) == i.type \in {"text", "email", "tel", "search", "url"}
Found(u, p) == [username |-> u, password |-> p]

ByAutocomplete(p) ==
    Found(First(Shown(p, LAMBDA i : i.auto = "username")), First(Shown(p, LAMBDA i : i.auto = "current-password")))
ByEmailAndPassword(p) ==
    LET pass == First(Shown(p, IsPassword))
        email == First(Shown(p, LAMBDA i : i.type = "email"))
    IN  IF pass = 0 \/ email = 0 THEN Found(0, 0) ELSE Found(email, pass)
ByTextAndPassword(p) ==
    LET pass == First(Shown(p, IsPassword))
        near == {i \in Shown(p, LAMBDA i : i.type = "text") :
                    i < pass /\ (Inputs(p)[pass].form # None => Inputs(p)[i].form = Inputs(p)[pass].form)}
    IN  IF pass = 0 THEN Found(0, 0) ELSE Found(Nearest(near), pass)
\* What the name, the label and the placeholder of an input speak of.
ByWords(p, words) ==
    Found(First(Shown(p, LAMBDA i : IsTextLike(i) /\ i[words] = "user")),
          First(Shown(p, LAMBDA i : IsPassword(i) /\ i[words] = "pass")))

\* detectLoginForm: what one strategy does not find the next ones may.
Or(f, g) == Found(IF f.username # 0 THEN f.username ELSE g.username,
                  IF f.password # 0 THEN f.password ELSE g.password)
DetectLoginForm(p) ==
    Or(ByAutocomplete(p), Or(ByEmailAndPassword(p), Or(ByTextAndPassword(p),
        Or(ByWords(p, "name"), Or(ByWords(p, "label"), ByWords(p, "place"))))))

Forms == [p \in Pages |-> DetectLoginForm(p)]

----------------------------------------------------------------------------
(* matcher.ts.                                                             *)

MatchesAtTier(e, tier, p) ==
    LET f == Facts[e]
    IN  CASE tier = 1 -> \E u \in f.urls : u.url = Content[p].url
          [] tier = 2 -> Content[p].host # None /\ \E u \in f.urls : u.host = Content[p].host
          [] tier = 3 -> Content[p].domain # None /\ \E u \in f.urls : u.domain = Content[p].domain
          [] tier = 4 -> Content[p].host # None /\ Content[p].host \in f.title
AtTier(among, p, tier) == {e \in among : MatchesAtTier(e, tier, p)}

\* If every tier added its entries.
MatchAllTiers(among, p) == UNION {AtTier(among, p, tier) : tier \in 1..4}
MatchEntries(among, p) ==
    LET some == {tier \in 1..4 : AtTier(among, p, tier) # {}}
    IN  IF some = {} THEN {} ELSE AtTier(among, p, First(some))

----------------------------------------------------------------------------
(* The content script.  "doing" is the call that waits: for the answer     *)
(* whether the site is trusted, for the user, or to write the trust.       *)

NewScript == [last |-> Found(0, 0), matches |-> {}, marker |-> 0,
              doing |-> "nothing", entry |-> None, seen |-> {}, among |-> {}]
Request(kind, t, e) == [kind |-> kind, load |-> loads[t], entry |-> e]
Send(t, r) == requests' = [requests EXCEPT ![t] = Append(@, r)]
NoRequest == UNCHANGED requests
Room(t) == Len(requests[t]) < 2
Become(t, s) == script' = [script EXCEPT ![t] = s]

\* The popup: "shown", asking the user, writing the trust, or filling.
Closed == [pc |-> "closed", tab |-> None, among |-> {}, matches |-> {}, entry |-> None,
           matched |-> 0, asked |-> 0, domain |-> None, seen |-> {}]

vault == <<open, entries>>
trust == <<trusted, revoking, granted>>
tab == <<page, loads>>

Init ==
    /\ open \in BOOLEAN
    /\ entries = Entries
    /\ page = [t \in Tabs |-> None] /\ loads = [t \in Tabs |-> 0]
    /\ script = [t \in Tabs |-> NewScript] /\ requests = [t \in Tabs |-> <<>>]
    /\ trusted = {} /\ revoking = None /\ granted = {} /\ filled = {}
    /\ popup = Closed /\ picks = 0

\* tryDetectAndNotify: nothing new is not reported.
Detected(last, p, force) ==
    LET f == Forms[p]
    IN  IF f = Found(0, 0) \/ (~force /\ f = last) THEN None ELSE f

\* A page is loaded; the script of the one before is gone, what it asked is not.
Load(t, p) ==
    LET f == Detected(Found(0, 0), p, FALSE)
    IN  /\ loads[t] < MaxLoads /\ Room(t)
        /\ page' = [page EXCEPT ![t] = p]
        /\ loads' = [loads EXCEPT ![t] = @ + 1]
        /\ Become(t, IF f = None THEN NewScript ELSE [NewScript EXCEPT !.last = f])
        /\ IF f = None THEN NoRequest
           ELSE Send(t, [kind |-> "matches", load |-> loads[t] + 1, entry |-> None])
        /\ UNCHANGED <<vault, trust, filled, popup, picks>>

\* The page changes its fields and keeps its address: the next step of a login.
Change(t, p) ==
    LET f == Detected(script[t].last, p, FALSE)
    IN  /\ page[t] # None /\ Room(t) /\ p # page[t]
        /\ Content[p].url = Content[page[t]].url
        /\ page' = [page EXCEPT ![t] = p]
        /\ IF f = None THEN NoRequest /\ UNCHANGED script
           ELSE Send(t, Request("matches", t, None)) /\ Become(t, [script[t] EXCEPT !.last = f])
        /\ UNCHANGED <<loads, vault, trust, filled, popup, picks>>

\* REDETECT_LOGIN_FORM, sent to every tab when the vault is unlocked.
Unlock ==
    LET Redetected(t) == IF page[t] = None THEN None ELSE Detected(script[t].last, page[t], TRUE)
    IN  /\ ~open /\ \A t \in Tabs : Room(t)
        /\ open' = TRUE
        /\ script' = [t \in Tabs |-> IF Redetected(t) = None THEN script[t]
                                     ELSE [script[t] EXCEPT !.last = Redetected(t)]]
        /\ requests' = [t \in Tabs |-> IF Redetected(t) = None THEN requests[t]
                                       ELSE Append(requests[t], Request("matches", t, None))]
        /\ UNCHANGED <<entries, tab, trust, filled, popup, picks>>

Lock == open /\ open' = FALSE /\ UNCHANGED <<entries, tab, script, requests, trust, filled, popup, picks>>

DeleteEntry(e) ==
    /\ open /\ e \in entries
    /\ entries' = entries \ {e}
    /\ UNCHANGED <<open, tab, script, requests, trust, filled, popup, picks>>

\* GET_PAGE_ENTRY_MATCHES and loadPageEntryMatches: without an answer or without
\* matches the script keeps its marker.
AnswerMatches(t) ==
    LET r == Head(requests[t])
        s == script[t]
        found == MatchEntries(entries, page[t])
        field == IF s.last.username # 0 THEN s.last.username ELSE s.last.password
    IN  /\ requests[t] # <<>> /\ r.kind = "matches"
        /\ requests' = [requests EXCEPT ![t] = Tail(@)]
        /\ IF ~open \/ r.load # loads[t] THEN UNCHANGED script
           ELSE Become(t, [s EXCEPT !.matches = found, !.among = entries,
                                    !.marker = IF found = {} THEN @ ELSE field])
        /\ UNCHANGED <<vault, tab, trust, filled, popup, picks>>

\* The marker goes when the form is submitted.
Submit(t) ==
    /\ script[t].marker # 0
    /\ Become(t, [script[t] EXCEPT !.marker = 0])
    /\ UNCHANGED <<vault, tab, requests, trust, filled, popup, picks>>

\* The user opens the menu from a field or the marker and picks one of the matches.
PickEntry(t, e) ==
    /\ script[t].marker # 0 /\ e \in script[t].matches /\ picks < MaxPicks
    /\ script[t].doing \in {"nothing", "asking"}
    /\ picks' = picks + 1
    /\ Become(t, [script[t] EXCEPT !.doing = "checking", !.entry = e])
    /\ UNCHANGED <<vault, tab, requests, trust, filled, popup>>

\* fillPageEntry: a site that is not trusted is asked about first.
IsTrusted(p, known) == Content[p].domain # None /\ Content[p].domain \in known
AlwaysTrusted(p, known) == Content[p].domain # None
MayFill(p, known) == IsTrusted(p, known)
CheckTrust(t) ==
    /\ script[t].doing = "checking" /\ Room(t)
    /\ IF MayFill(page[t], trusted)
       THEN Send(t, Request("fill", t, script[t].entry)) /\ Become(t, [script[t] EXCEPT !.doing = "nothing"])
       ELSE NoRequest /\ Become(t, [script[t] EXCEPT !.doing = "asking"])
    /\ UNCHANGED <<vault, tab, trust, filled, popup, picks>>

CancelTrust(t) ==
    /\ script[t].doing = "asking"
    /\ Become(t, [script[t] EXCEPT !.doing = "nothing"])
    /\ UNCHANGED <<vault, tab, requests, trust, filled, popup, picks>>

\* trustHost reads what is stored and writes it with one more; a host without a domain
\* cannot be trusted.
TrustHost(t) ==
    /\ script[t].doing = "asking"
    /\ IF Content[page[t]].domain = None
       THEN Become(t, [script[t] EXCEPT !.doing = "nothing"]) /\ UNCHANGED granted
       ELSE /\ Become(t, [script[t] EXCEPT !.doing = "trusting", !.seen = trusted])
            /\ granted' = granted \cup {Content[page[t]].domain}
    /\ UNCHANGED <<vault, tab, requests, trusted, revoking, filled, popup, picks>>
WriteTrust(t) ==
    /\ script[t].doing = "trusting" /\ Room(t)
    /\ trusted' = IF Content[page[t]].domain \in script[t].seen THEN trusted ELSE script[t].seen \cup {Content[page[t]].domain}
    /\ Send(t, Request("fill", t, script[t].entry))
    /\ Become(t, [script[t] EXCEPT !.doing = "nothing"])
    /\ UNCHANGED <<vault, tab, revoking, granted, filled, popup, picks>>

\* revokeHost in Options.
StartRevoke == revoking = None /\ revoking' = trusted
               /\ UNCHANGED <<vault, tab, script, requests, trusted, granted, filled, popup, picks>>
Revoke(d) ==
    /\ revoking # None /\ d \in revoking
    /\ trusted' = revoking \ {d}
    /\ revoking' = None
    /\ UNCHANGED <<vault, tab, script, requests, granted, filled, popup, picks>>

\* FILL_PAGE_ENTRY: the values go to the tab, to the page that is there now.
AnswerFill(t) ==
    LET r == Head(requests[t])
        f == Forms[page[t]]
        fields == {f.username, f.password} \ {0}
    IN  /\ requests[t] # <<>> /\ r.kind = "fill"
        /\ requests' = [requests EXCEPT ![t] = Tail(@)]
        /\ filled' = IF ~open \/ r.entry \notin entries \/ fields = {} THEN filled
                     ELSE filled \cup {[entry |-> r.entry, page |-> page[t], form |-> f,
                                        moved |-> r.load # loads[t],
                                        stale |-> r.load # loads[t], among |-> script[t].among]}
        /\ UNCHANGED <<vault, tab, script, trust, popup, picks>>

\* The popup matches the entries when it opens, asks about trust in the page that is
\* there when the user picks one, and fills the page that is there in the end.
PopupOnly(q) == popup' = q /\ UNCHANGED <<vault, tab, script, requests, revoking>>

OpenPopup(t) ==
    /\ open /\ page[t] # None /\ popup = Closed
    /\ PopupOnly([Closed EXCEPT !.pc = "shown", !.tab = t, !.among = entries,
                                !.matches = MatchEntries(entries, page[t]), !.matched = loads[t]])
    /\ UNCHANGED <<trusted, granted, filled, picks>>
PopupPick(e) ==
    /\ popup.pc = "shown" /\ e \in popup.matches /\ picks < MaxPicks
    /\ picks' = picks + 1
    /\ PopupOnly([popup EXCEPT !.entry = e, !.asked = loads[popup.tab], !.domain = Content[page[popup.tab]].domain,
                    !.pc = IF MayFill(page[popup.tab], trusted) THEN "filling" ELSE "asking"])
    /\ UNCHANGED <<trusted, granted, filled>>
PopupTrust ==
    /\ popup.pc = "asking" /\ popup.domain # None
    /\ granted' = granted \cup {popup.domain}
    /\ PopupOnly([popup EXCEPT !.pc = "trusting", !.seen = trusted])
    /\ UNCHANGED <<trusted, filled, picks>>
PopupWriteTrust ==
    /\ popup.pc = "trusting"
    /\ trusted' = IF popup.domain \in popup.seen THEN trusted ELSE popup.seen \cup {popup.domain}
    /\ PopupOnly([popup EXCEPT !.pc = "filling"])
    /\ UNCHANGED <<granted, filled, picks>>
\* fillActiveTab, with nothing to fill in when the vault was locked meanwhile.
PopupFill ==
    LET p == page[popup.tab]
        f == Forms[p]
    IN  /\ popup.pc = "filling"
        /\ filled' = IF ~open \/ popup.entry \notin entries \/ f = Found(0, 0) THEN filled
                     ELSE filled \cup {[entry |-> popup.entry, page |-> p, form |-> f,
                                        moved |-> popup.asked # loads[popup.tab],
                                        stale |-> popup.matched # loads[popup.tab], among |-> popup.among]}
        /\ PopupOnly([popup EXCEPT !.pc = "shown", !.entry = None, !.seen = {}])
        /\ UNCHANGED <<trusted, granted, picks>>
ClosePopup ==
    /\ popup # Closed
    /\ PopupOnly(Closed)
    /\ UNCHANGED <<trusted, granted, filled, picks>>

Next ==
    \/ \E t \in Tabs :
        \/ \E p \in Pages : Load(t, p) \/ Change(t, p)
        \/ AnswerMatches(t) \/ Submit(t)
        \/ CheckTrust(t) \/ CancelTrust(t) \/ TrustHost(t) \/ WriteTrust(t) \/ AnswerFill(t)
        \/ \E e \in Entries : PickEntry(t, e)
    \/ Unlock \/ Lock \/ StartRevoke
    \/ \E t \in Tabs : OpenPopup(t)
    \/ PopupTrust \/ PopupWriteTrust \/ PopupFill \/ ClosePopup
    \/ \E e \in Entries : DeleteEntry(e) \/ PopupPick(e)
    \/ \E p \in Pages : Revoke(Content[p].domain)

Spec == Init /\ [][Next]_vars

----------------------------------------------------------------------------
(* Properties.                                                             *)

TypeOK ==
    /\ open \in BOOLEAN /\ entries \subseteq Entries
    /\ \A t \in Tabs : page[t] \in Pages \cup {None} /\ loads[t] \in 0..MaxLoads
    /\ \A t \in Tabs : script[t].matches \subseteq Entries /\ Len(requests[t]) <= 2
    /\ trusted \subseteq granted

\* A login reaches a page only when the user trusts its site, whatever other tabs and
\* Options do to the list meanwhile, unless the tab has moved on to another page.
FilledWhereTrusted == \A f \in filled : f.moved \/ Content[f.page].domain \in granted

\* What is filled in is an entry that no other entry matched the page better than, and
\* the password goes into a field that hides it or that says it is for one.
Hides(i) == IsPassword(i) \/ i.auto = "current-password"
FilledWithBest ==
    \A f \in filled :
        /\ f.stale \/ \E tier \in 1..4 :
                /\ MatchesAtTier(f.entry, tier, f.page)
                /\ \A better \in 1..(tier - 1) : \A e \in f.among : ~MatchesAtTier(e, better, f.page)
        /\ f.form.password # 0 => Hides(Inputs(f.page)[f.form.password])
=============================================================================
