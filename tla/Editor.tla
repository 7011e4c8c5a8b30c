-------------------------------- MODULE Editor --------------------------------
(***************************************************************************)
(* The link editor (panel/app/lib/editor.server.ts, routes/link-edit.tsx,  *)
(* components/link-editor.tsx), the row it saves (links.server.ts) and what*)
(* the edge answers for that row and for a host's own paths                *)
(* (edge/src/server.mjs, edge/src/root.mjs).  Pure: `rule` is one input.   *)
(***************************************************************************)
EXTENDS LinkRules, Integers

-----------------------------------------------------------------------------
(* Names.  A slug is a word and whether it is typed in lower case; the words *)
(* stand for one slug each, except "empty" for none, "a/b" for any that is   *)
(* not of the format, and "promo" for any other.                             *)

Reserved == {"health", "robots.txt", "favicon.ico", "sitemap.xml", "_status", "_linkyard"}
Words == Reserved \cup {"empty", "promo", "a/b", "healthz", ".well-known"}
Slugs == [word: Words, lower: BOOLEAN]

\* validateSlug.
SlugProblem(slug) ==
    CASE slug.word = "empty"       -> "empty"
      [] slug.word = "a/b"         -> "format"
      [] slug.word \in Reserved    -> "reserved"
      [] slug.word = ".well-known" -> "well_known"
      [] OTHER                     -> "none"

\* The CHECKs of the links table on a slug.
TableTakes(slug) == slug.word \notin Reserved \cup {"empty", "a/b", ".well-known"}

-----------------------------------------------------------------------------
(* Destinations.  A URL is empty, does not parse, is not a web address, or   *)
(* is one, here or elsewhere; `query` is its query string.                   *)

\* validateTargetUrl, and detectsLoop over the hosts of this installation.
UrlProblem(url) == IF url.kind = "web" THEN "none" ELSE url.kind
DetectsLoop(url) == url.kind = "web" /\ url.host = "ours"

\* handlePaste: a pasted address that carries UTMs is split, and fills only the
\* fields that are empty; one that carries none is typed as it is.
Paste(fields, query) ==
    IF KeysOf(query) \cap Utms = {} THEN [base |-> FirstOf(query), utms |-> fields]
    ELSE LET split == SplitUtms(query) IN
         [base |-> split.base, utms |-> Under(Filled(fields), Filled(split.utms))]

-----------------------------------------------------------------------------
(* Dates.  An instant counts seconds from the start of some minute of UTC. The *)
(* field of a form holds minutes of a wall clock nobody names.               *)

Never == [kind |-> "none", second |-> 0]
On(second) == [kind |-> "at", second |-> second]
NoDate == [kind |-> "none", minute |-> 0]
Clock(minute) == [kind |-> "at", minute |-> minute]

\* An instant is shown as it reads in UTC, cut to the minute; what is in the field
\* is read where the server is, so many minutes ahead of UTC.
Shown(expires) == IF expires.kind = "at" THEN Clock(expires.second \div 60) ELSE NoDate
Read(expires, zone) == IF expires.kind = "at" THEN On(60 * (expires.minute - zone)) ELSE Never
Past(expires, now) == expires.kind = "at" /\ expires.second <= now

-----------------------------------------------------------------------------
(* The form and the row.                                                     *)

\* The parameters of the form, a sequence of <<key, value>>; Blank is the key of a
\* row left blank.  Those that are not, whether two say the same, and what they
\* come to when none does.
Entered(params) == {i \in DOMAIN params : params[i][1] # Blank}
Repeats(params) == \E i, j \in Entered(params) : i # j /\ params[i][1] = params[j][1]
Given(params) == [k \in KeysOf(params) \ {Blank} |-> FirstOf(params)[k]]

\* parseLinkForm: the fields in error, and the input without any.
Errors(form, now, zone) ==
    (IF SlugProblem(form.slug) # "none" THEN {"slug"} ELSE {}) \cup
    (IF UrlProblem(form.target) # "none" \/ DetectsLoop(form.target) THEN {"targetUrl"} ELSE {}) \cup
    (IF Repeats(form.params) THEN {"params"} ELSE {}) \cup
    (IF form.expires.kind = "garbage" \/ Past(Read(form.expires, zone), now) THEN {"expiresAt"} ELSE {})

\* The row of the input: toRow, whose defaults stand in for what the form lacks.
ToRow(form, zone) ==
    [slug |-> form.slug, target |-> form.target, utms |-> Filled(form.utms),
     params |-> Given(form.params), expires |-> Read(form.expires, zone), fallback |-> form.fallback,
     active |-> TRUE, passes |-> FALSE, type |-> 302]

\* EditLink: the form a row is rendered as.  Utms is UTM_KEYS; the parameters
\* come in some order of their own.
Render(row) ==
    [slug |-> row.slug, target |-> row.target, utms |-> row.utms,
     params |-> SetToSeq({<<k, row.params[k]>> : k \in DOMAIN row.params}),
     expires |-> Shown(row.expires), fallback |-> row.fallback]

\* updateLink writes every column; a form in error writes none.
Resaved(row, now, zone) ==
    IF Errors(Render(row), now, zone) = {} THEN ToRow(Render(row), zone) ELSE row

-----------------------------------------------------------------------------
(* What the edge answers.                                                    *)

OwnPaths == {"healthz", "health", "robots.txt", "favicon.ico"}

\* absoluteUrl: only a web address will do.
Usable(url) == url.kind = "web"

\* rootDecision: "sub" is the subdomain's target, "domain" its domain's.
RootDecision(site) ==
    LET own == site.policy # "none" IN
    CASE (IF own THEN site.policy ELSE site.domainPolicy) = "branded_page"  -> "page"
      [] (IF own THEN site.policy ELSE site.domainPolicy) = "redirect_apex" -> "apex"
      [] (IF own THEN site.policy ELSE site.domainPolicy) = "custom_url"    ->
           IF own /\ Usable(site.target) THEN "sub" ELSE IF Usable(site.domainTarget) THEN "domain" ELSE "apex"

\* handle, of the path that is a slug: the edge's own paths come first, and are
\* matched as they are written.  `query` is what the visitor's address carries.
Handle(slug, site, now, row, query) ==
    IF slug.lower /\ slug.word \in OwnPaths THEN [type |-> "own", to |-> slug.word]
    ELSE IF slug.word # row.slug.word THEN ResolveLink(site, NoLink)
    ELSE LET link == [active |-> row.active, expired |-> Past(row.expires, now), scheduled |-> FALSE,
                      parses |-> row.target.kind \in {"web", "scheme"},
                      fallback |-> IF Usable(row.fallback) THEN "own" ELSE "none"]
             answer == ResolveLink(site, link)
         IN  IF answer.to # "target" THEN answer
             ELSE [answer EXCEPT !.to = BuildTargetUrl(row.target.query, row.utms, row.params,
                                          IF row.passes THEN FirstOf(query) ELSE <<>>)]

-----------------------------------------------------------------------------
(* Inputs and properties.                                                    *)

Urls == {[kind |-> k, host |-> "none", query |-> <<>>] : k \in {"empty", "invalid", "scheme"}}
            \cup [kind: {"web"}, host: {"ours", "theirs"}, query: {<<>>}]
Typed == [slug |-> [word |-> "promo", lower |-> TRUE],
          target |-> [kind |-> "web", host |-> "theirs", query |-> <<>>], utms |-> <<>>, params |-> <<>>,
          expires |-> NoDate, fallback |-> [kind |-> "empty", host |-> "none", query |-> <<>>]]
Fields == UNION {[K -> Texts] : K \in SUBSET Utms}
Forms == [slug: Slugs, target: Urls, utms: {<<>>}, params: {<<>>},
          expires: {NoDate, Clock(-1), Clock(1), [NoDate EXCEPT !.kind = "garbage"]}, fallback: Urls] \cup
         {[Typed EXCEPT !.target.query = query, !.utms = utms, !.params = params] :
             query \in {<<>>} \cup [Utms -> Texts], utms \in Fields,
             params \in UNION {[1..n -> (Keys \cup {Blank}) \X Texts] : n \in 0..2}}
Policies == {"branded_page", "redirect_apex", "custom_url"}

\* The rows other hands leave a saved link in: paused, expired, another type of
\* redirect, its visitors' parameters passed on.
Handed(row, active, passes, type, expires) ==
    [row EXCEPT !.active = active, !.passes = passes, !.type = type, !.expires = expires]
Rows(form, zone, lapse) == {Handed(ToRow(form, zone), active, passes, type, expires) :
    active \in BOOLEAN, passes \in BOOLEAN, type \in {302, 307},
    expires \in {Read(form.expires, zone), lapse}}

\* Around now, around the hours the zones are apart, and around the full minute.
Minutes == {-181, -180, 0, 1, 60, 61, 62}
Seconds == {-90, 0, 30, 31, 59, 60, 100, 3630, 3690}
Zones == {-180, 0, 60}

EditorInputs ==
    RuleInputs \cup [of: {"paste"}, fields: Fields, query: Queries] \cup
    [of: {"form"}, form: Forms, site: [fallback: {"shared"}], now: {30}, zone: {0}, lapse: {On(-90)}] \cup
    [of: {"form"}, form: {[Typed EXCEPT !.expires = Clock(minute)] : minute \in Minutes},
     site: [fallback: {"shared"}], now: {30}, zone: Zones, lapse: {Never} \cup {On(second) : second \in Seconds}] \cup
    {r \in [of: {"root"}, policy: Policies \cup {"none"}, target: Urls, domainPolicy: Policies, domainTarget: Urls] :
        r.domainPolicy = "custom_url" => r.domainTarget.kind # "empty"}

\* Pasting an address and saving sends visitors where the address led, except
\* that a field filled in before keeps its value; as long as no key was repeated
\* and no UTM was empty: the split drops the copies of a repeated key, and an
\* empty UTM is never written back.
Faithful(query) ==
    /\ \A i, j \in DOMAIN query : i # j => query[i][1] # query[j][1]
    /\ \A i \in DOMAIN query : query[i][1] \in Utms => query[i][2] # Blank
PasteComposesBack ==
    rule.of = "paste" /\ Faithful(rule.query) =>
        LET pasted == Paste(rule.fields, rule.query)
            split  == KeysOf(rule.query) \cap Utms # {}
        IN  BuildTargetUrl(pasted.base, pasted.utms, <<>>, <<>>) =
                IF split THEN Under(Filled(rule.fields), FirstOf(rule.query))
                ELSE Under(FirstOf(rule.query), Filled(rule.fields))

\* What the form accepts the table takes and the edge serves: an accepted link
\* answers under its name however it is written, at an address that is not one
\* of this installation's -- unless it is named healthz in lower case, which
\* is one of the edge's own paths and no reserved slug (links.ts:27-36 reserves
\* the names "served by the edge itself", server.mjs:92-94 says neither health
\* path is one "a link could shadow"), or its fallback, which nobody validates,
\* is needed.  Saving a page opened on a link and touched nowhere keeps what
\* visitors get, if the link was active and passed nothing on; but it makes a
\* paused link active, stops it passing parameters on and makes its redirect a
\* 302, because the form has no field for these.  Its expiry comes back as many
\* minutes earlier as the server is ahead of UTC, and up to a minute more, for it
\* is shown in UTC (link-edit.tsx:75) and read as local time (editor.server.ts:73);
\* if that is past, the page is refused.  On a server in UTC ("The server runs in
\* UTC", bulk-bar.tsx:349) a link past its date is refused until it is given
\* another, and saving the page a second time changes nothing more.
SavedLinksResolve ==
    LET now == rule.now  zone == rule.zone IN
    rule.of = "form" /\ Errors(rule.form, now, zone) = {} =>
        /\ TableTakes(rule.form.slug) /\ rule.form.target.host = "theirs"
        /\ \A lower \in BOOLEAN :
              LET typed == [rule.form.slug EXCEPT !.lower = lower]
                  answer == Handle(typed, rule.site, now, ToRow(rule.form, zone), <<>>)
              IN  IF typed = [word |-> "healthz", lower |-> TRUE] THEN answer.type = "own"
                  ELSE answer = Redirect(BuildTargetUrl(rule.form.target.query, Filled(rule.form.utms),
                                             Given(rule.form.params), <<>>), TRUE)
        /\ \A row \in Rows(rule.form, zone, rule.lapse) :
              LET again   == Resaved(row, now, zone)
                  refused == Errors(Render(row), now, zone) # {}
                  moved   == row.expires.second - 60 * zone
              IN  /\ refused => again = row /\ row.expires.kind = "at" /\ moved < now + 60
                  /\ ~refused =>
                        /\ again = [row EXCEPT !.active = TRUE, !.passes = FALSE, !.type = 302,
                                               !.expires = again.expires]
                        /\ again.expires.kind = row.expires.kind /\ ~Past(again.expires, now)
                        /\ again.expires.kind = "at" => moved - again.expires.second \in 0..59
                  /\ zone = 0 =>
                        /\ Past(row.expires, now) => refused
                        /\ ~refused => Resaved(again, now, zone) = again

\* A host's root follows a target only under the policy of its owner: the
\* subdomain's own target only when the subdomain itself asks for one, and a
\* branded page is never left.
RootsFollowPolicy ==
    rule.of = "root" =>
        /\ RootDecision(rule) = "sub" => rule.policy = "custom_url"
        /\ "branded_page" \in {rule.policy} \cup (IF rule.policy = "none" THEN {rule.domainPolicy} ELSE {}) =>
              RootDecision(rule) = "page"
        /\ RootDecision(rule) = "domain" => "custom_url" \in {rule.policy, rule.domainPolicy}

\* What the panel keeps and shows and what the edge does with it agree: what is
\* pasted and saved is what visitors get, the root follows the policies stored,
\* only a link shown as active or scheduled reaches its target, one shown as
\* paused never redirects anybody, and a link is listed under the status it is
\* shown with.
PanelAgreesWithEdge ==
    /\ PasteComposesBack /\ SavedLinksResolve /\ RootsFollowPolicy
    /\ rule.of = "link" =>
          LET status == LinkStatus(rule.link)
              answer == ResolveLink(rule.site, rule.link)
          IN  /\ status \in Listed(rule.link)
              /\ answer.to = "target" => status \in {"active", "scheduled"}
              /\ status \in {"active", "scheduled"} /\ rule.link.parses => answer.to = "target"
              /\ status = "paused" => answer.type = "not_found"
=============================================================================
