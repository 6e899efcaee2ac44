------------------------------ MODULE Website ------------------------------
(***************************************************************************)
(* The website from its prototypes to its visitor: the content script and  *)
(* the deployment of what is in website/content (next build; the workflow  *)
(* publishes the export), the pages, and the live console, which lives     *)
(* while its page is shown.                                                *)
(***************************************************************************)
EXTENDS SitePages, LiveConsole

CONSTANTS Arrivals  \* the URLs visitors come with: [path, key, value, hash]

ASSUME ArrivalsAssumption == \A a \in Arrivals : IsPath(a.path) /\ a.key \in Keys

vars == <<contentVars, pageVars, consoleVars>>

Init == ContentInit /\ PagesInit /\ ConsoleInit

\* The site is built from a checkout, if it can be, and visited from then on.
\* Nothing is kept of the checkout.
Deploy ==
    /\ site = Absent /\ Buildable
    /\ site' = [l \in Locales |-> Site(l)]
    /\ step' = 0 /\ files' = [f \in ContentFiles |-> Absent] /\ broken' = Absent
    /\ UNCHANGED <<at, query, hash, selected, pending, promised, choice>>
    /\ UNCHANGED consoleVars

Build ==
    /\ site = Absent /\ (ExtractStep \/ ExtractKilled)
    /\ UNCHANGED <<pageVars, consoleVars>>

Visit ==
    \/ \E a \in Arrivals : Arrive(a.path, a.key, a.value, a.hash)
    \/ FollowNav \/ SwapLocale \/ FollowNotFound \/ RedirectDocs \/ ReadDocs

\* Leaving the page of the console unmounts it; the locale is part of the page.
Navigate ==
    /\ Visit /\ UNCHANGED contentVars
    /\ IF mounted # None /\ at' # at THEN Unmount ELSE UNCHANGED consoleVars

Explore ==
    /\ \/ Click \/ PressArrow \/ Commit \/ SelectLayer \/ HashChange
    /\ UNCHANGED <<contentVars, consoleVars>>

Console ==
    /\ ConsoleNext \/ (at # Absent /\ at.route = "console" /\ Mount)
    /\ UNCHANGED <<contentVars, pageVars>>

Next == Build \/ Deploy \/ Navigate \/ Explore \/ Console

Spec == Init /\ [][Next]_vars

-----------------------------------------------------------------------------
(* The type invariant of the three parts.                                  *)

\* A content file that can be read is as FileOK has it: copy and lists without the
\* prototypes' versions, slugs that differ where those of the prototypes do, a docs
\* sidebar of pages that are there.  Each page shown and each selection exists, and the
\* console's state is well formed (content.ts, LiveConsoleApp.tsx:152-154).
WebTypeOK ==
    /\ DOMAIN files = ContentFiles
    /\ \A f \in ContentFiles : files[f] # Absent => FileOK(f, files[f])
    /\ step \in DOMAIN Main \cup {0}
    /\ site # Absent => DOMAIN site = Locales
    /\ at # Absent => site # Absent /\ at = Resolve(at)
    /\ at # Absent /\ at.route = "home" =>
           selected.part \in DOMAIN Index.parts /\ selected.layer \in DOMAIN Index.layers
    /\ DOMAIN query = Keys /\ Len(pending) <= MaxPending
    /\ \A i \in DOMAIN pending : DOMAIN pending[i] = Keys
    /\ (mounted # None) => (at # Absent /\ at.route = "console")
    /\ ConsoleTypeOK
=============================================================================
