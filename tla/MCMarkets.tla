------------------------------ MODULE MCMarkets ------------------------------
(* An instance of each module about the markets, for TLC.  They share no      *)
(* state: each behaviour is about one of them, its subject, and the others    *)
(* stay in a state they start in.                                             *)
EXTENDS MarketPages, MarketDownloads, KaggleSession, RateLimit

VARIABLE subject

allVars == <<pagesVars, downloadVars, sessionVars, limitVars, subject>>

MCInit ==
    /\ PagesInit /\ DownloadsInit /\ SessionInit /\ LimitInit
    /\ subject \in {"pages", "downloads", "session", "limit"}
    /\ subject # "pages" => catalog = << >> /\ lowlevel

OfPages(A)     == subject = "pages" /\ A /\ UNCHANGED <<downloadVars, sessionVars, limitVars, subject>>
OfDownloads(A) == subject = "downloads" /\ A /\ UNCHANGED <<pagesVars, sessionVars, limitVars, subject>>
OfSession(A)   == subject = "session" /\ A /\ UNCHANGED <<pagesVars, downloadVars, limitVars, subject>>
OfLimit(A)     == subject = "limit" /\ A /\ UNCHANGED <<pagesVars, downloadVars, sessionVars, subject>>

MCNext ==
    \/ OfPages(PagesNext) \/ OfDownloads(DownloadsNext)
    \/ OfSession(SessionNext) \/ OfLimit(LimitNext)

\* Every fetch ends, one way or another; no thread of the pool has to, but every
\* timer runs out.
MCFairness ==
    /\ WF_allVars(OfPages(Fetch))
    /\ \A r \in Requests : WF_allVars(OfDownloads(TimesOut(r)))

MCSpec == MCInit /\ [][MCNext]_allVars /\ MCFairness

\* Every variable of every module has its type.
MarketTypes == PagesTypeOK /\ DownloadsTypeOK /\ SessionTypeOK /\ LimitTypeOK
=============================================================================
