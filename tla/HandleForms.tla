------------------------------ MODULE HandleForms ------------------------------
(***************************************************************************)
(* The page that replaces the handle of an account: by a name of this      *)
(* server, which a form checks while it is typed, or by a domain that is   *)
(* verified first. An actor with its key elsewhere is updated in between.  *)
(***************************************************************************)
EXTENDS Integers, FiniteSets

CONSTANTS
  Names, BadNames,      \* what may be typed as a name, and what no handle may be
  Domains, BadDomains,  \* and as a domain
  NoText,               \* nothing is typed, or verified, or waits
  MaxFormEvents         \* bound: what the user, others and failures do

VARIABLES
  choice,     \* "none", "local" or "custom"
  actor,      \* "loading", "managed" here, "external", or "none"
  name, seq,  \* the text of the form, and requestSeq
  timer,      \* the seq of the timer that runs, or 0
  checks,     \* requests for the availability of a name
  status,     \* availabilityStatus
  statusOf,   \* history: the seq that the status is about
  pending,    \* pendingLocalName
  domain,
  verifying,  \* the domain that is being verified
  verified,   \* verifiedDid
  errorOf,    \* history: the domain whose verification the error is about
  changes,    \* requests for a new handle
  taken,      \* of the server: names that are not available
  published,  \* of others: domains with the right document
  alias,      \* of others: the alias of an actor whose key is elsewhere
  left,       \* the page is left
  formEvents  \* how much of the bound is spent

nameForm == <<name, seq, timer, checks, status, statusOf>>
domainForm == <<domain, verifying, verified, errorOf>>
others == <<taken, published, alias>>
handleFormVars == <<choice, actor, nameForm, pending, domainForm, changes, others, left, formEvents>>

HandleFormInit ==
  /\ choice = "none" /\ actor = "loading"
  /\ name = NoText /\ seq = 0 /\ timer = 0 /\ checks = {}
  /\ status = "idle" /\ statusOf = 0
  /\ pending = NoText
  /\ domain = NoText /\ verifying = NoText /\ verified = NoText /\ errorOf = NoText
  /\ changes = {} /\ taken = {} /\ published = {} /\ alias = NoText
  /\ left = FALSE /\ formEvents = 0

Uses == ~left /\ formEvents < MaxFormEvents /\ formEvents' = formEvents + 1
Within == ~left /\ UNCHANGED formEvents

Replacing == \E c \in changes : c.by \in {"domain", "external"}
Registering == \E c \in changes : c.by = "form"
-----------------------------------------------------------------------------
\* loadActor()
LoadActor(kind) ==
  /\ Within /\ actor = "loading"
  /\ actor' = kind
  /\ UNCHANGED <<choice, nameForm, pending, domainForm, changes, others, left>>

\* The form for a name goes with the choice, and with what it was waiting for.
ChooseLocal ==
  /\ Uses /\ choice' = "local"
  /\ errorOf' = NoText /\ pending' = NoText
  /\ UNCHANGED <<actor, nameForm, domain, verifying, verified, changes, others, left>>

ChooseCustom ==
  /\ Uses /\ choice' = "custom"
  /\ errorOf' = NoText /\ verified' = NoText
  /\ name' = NoText /\ seq' = 0 /\ timer' = 0 /\ checks' = {}
  /\ status' = "idle" /\ statusOf' = 0
  /\ changes' = {[c EXCEPT !.by = IF @ = "form" THEN "form before" ELSE @] : c \in changes}
  /\ UNCHANGED <<actor, pending, domain, verifying, others, left>>
-----------------------------------------------------------------------------
(* RegisterHandle.vue *)

ShowsNameForm == choice = "local" /\ actor \in {"managed", "external"}

\* The watch of the name: a new number, and a check in half a second.
Type(n) ==
  /\ Uses /\ ShowsNameForm /\ ~Registering /\ n # name
  /\ name' = n
  /\ seq' = seq + 1
  /\ statusOf' = seq + 1
  /\ timer' = IF n \in Names \ BadNames THEN seq + 1 ELSE 0
  /\ status' = CASE n = NoText   -> "idle"
                 [] n \in BadNames -> "error"
                 [] OTHER          -> "checking"
  /\ pending' = NoText
  /\ UNCHANGED <<choice, actor, checks, domainForm, changes, others, left>>

TimerFires ==
  /\ Within /\ timer # 0
  /\ timer' = 0
  /\ checks' = checks \cup {[seq |-> timer, name |-> name]}
  /\ UNCHANGED <<choice, actor, name, seq, status, statusOf, pending, domainForm,
                 changes, others, left>>

MutIsNewest(c) == TRUE  \* mutant: any answer counts
IsNewest(c) == c.seq = seq

\* The answer to a check, unless something else was typed meanwhile.
CheckAnswered(c) ==
  /\ Within
  /\ checks' = checks \ {c}
  /\ IF IsNewest(c)
     THEN /\ status' = IF c.name \in taken THEN "unavailable" ELSE "available"
          /\ statusOf' = c.seq
     ELSE UNCHANGED <<status, statusOf>>
  /\ UNCHANGED <<choice, actor, name, seq, timer, pending, domainForm, changes, others, left>>

\* A check fails: the error is shown, whatever was typed meanwhile.
CheckFails(c) ==
  /\ Uses
  /\ checks' = checks \ {c}
  /\ status' = "error" /\ statusOf' = c.seq
  /\ UNCHANGED <<choice, actor, name, seq, timer, pending, domainForm, changes, others, left>>

OffersName == ShowsNameForm /\ status = "available" /\ ~Registering

\* The form is submitted: the handle is replaced, or the actor is to be updated first.
SubmitName ==
  /\ Uses /\ OffersName
  /\ \/ /\ actor = "managed"
        /\ changes' = changes \cup {[by |-> "form", to |-> name]}
        /\ UNCHANGED pending
     \/ actor = "external" /\ pending' = name /\ UNCHANGED changes
  /\ UNCHANGED <<choice, actor, nameForm, domainForm, others, left>>
-----------------------------------------------------------------------------
(* The domain of ReplaceHandle.vue *)

ShowsDomainForm == choice = "custom" /\ actor \in {"managed", "external"}

TypeDomain(d) ==
  /\ Uses /\ ShowsDomainForm /\ d # domain
  /\ domain' = d /\ verified' = NoText /\ errorOf' = NoText
  /\ UNCHANGED <<choice, actor, nameForm, pending, verifying, changes, others, left>>

Verify ==
  /\ Uses /\ ShowsDomainForm /\ verifying = NoText /\ domain \in Domains \ BadDomains
  /\ verifying' = domain /\ verified' = NoText /\ errorOf' = NoText
  /\ UNCHANGED <<choice, actor, nameForm, pending, domain, changes, others, left>>

MutSameDomain == TRUE  \* mutant: the domain is taken as verified, whatever it is now
SameDomain == verifying = domain

\* The server looked for the document of the domain.
VerifyAnswered ==
  LET ok == verifying \in published
  IN /\ Within /\ verifying # NoText
     /\ verifying' = NoText
     /\ verified' = IF ok /\ SameDomain THEN domain ELSE verified
     /\ errorOf' = IF ok THEN errorOf ELSE verifying
     /\ UNCHANGED <<choice, actor, nameForm, pending, domain, changes, others, left>>

\* The handle that an actor whose key is elsewhere is to name.
NextHandle ==
  CASE choice = "local"  -> pending
    [] choice = "custom" -> verified
    [] OTHER             -> NoText

\* replaceCustomHandle() and replaceExternalActorHandle()
Replace ==
  /\ Uses /\ ~Replacing
  /\ \/ /\ ShowsDomainForm /\ actor = "managed" /\ verified # NoText /\ verified = domain
        /\ changes' = changes \cup {[by |-> "domain", to |-> verified]}
     \/ /\ actor = "external" /\ NextHandle # NoText
        /\ changes' = changes \cup {[by |-> "external", to |-> NextHandle]}
  /\ errorOf' = NoText
  /\ UNCHANGED <<choice, actor, nameForm, pending, domain, verifying, verified, others, left>>

\* The handle is replaced, and the page left, or it is refused.
ChangeAnswered(c) ==
  LET granted == /\ c.to \in Names => c.to \notin taken
                 /\ c.to \in Domains => c.to \in published
                 /\ actor = "external" => alias = c.to
  IN /\ Within
     /\ changes' = changes \ {c}
     /\ left' = granted
     /\ UNCHANGED <<choice, actor, nameForm, pending, domainForm, others>>

\* Others take a name, publish a document, or change the actor.
Others ==
  /\ Uses
  /\ \/ \E n \in Names \ (BadNames \cup taken) :
          taken' = taken \cup {n} /\ UNCHANGED <<published, alias>>
     \/ \E d \in Domains \ published :
          published' = published \cup {d} /\ UNCHANGED <<taken, alias>>
     \/ /\ actor = "external" /\ NextHandle # NoText
        /\ alias' = NextHandle /\ UNCHANGED <<taken, published>>
  /\ UNCHANGED <<choice, actor, nameForm, pending, domainForm, changes, left>>

HandleFormNext ==
  \/ \E kind \in {"managed", "external", "none"} : LoadActor(kind)
  \/ ChooseLocal \/ ChooseCustom
  \/ \E n \in Names \cup {NoText} : Type(n)
  \/ TimerFires
  \/ \E c \in checks : CheckAnswered(c) \/ CheckFails(c)
  \/ SubmitName
  \/ \E d \in Domains : TypeDomain(d)
  \/ Verify \/ VerifyAnswered \/ Replace
  \/ \E c \in changes : ChangeAnswered(c)
  \/ Others
-----------------------------------------------------------------------------
\* What the page offers to make the handle was checked, as it is now: a name by the
\* newest check, a domain by a verification that nothing was typed since, and the
\* alias that an actor is to be given is the one that the forms would ask for.
OffersAreChecked ==
  /\ OffersName => statusOf = seq /\ name \in Names \ BadNames
  /\ verified # NoText => verified = domain /\ verified \in published
  /\ pending # NoText /\ choice = "local" => pending = name

\* "availabilityStatus" is about the name in the form.
StatusIsForName == statusOf = seq

\* The error below the form is about the domain in the form.
ErrorIsForDomain == errorOf \in {NoText, domain}
=============================================================================
