----------------------------- MODULE AppContext -----------------------------
(***************************************************************************)
(* From a captured target to what a dictation sends and stores:            *)
(* acquireTargetContext's merge, buildAppContext, the application          *)
(* profiles, the projections for the model and for history, and the rows   *)
(* of the user prompt.  A target is what acquireTargetContext collected:   *)
(*   app [bundle, name] or NoApp, capture what AxCapture read, title the   *)
(*   window's title or Null.                                               *)
(* No native library fills a capture's address, so the page's domain is    *)
(* Null wherever the code asks for it.                                     *)
(***************************************************************************)
EXTENDS AxCapture

Null == "null"
NoApp == [bundle |-> Null, name |-> Null]
NoContext == [bundle |-> "no context"]

(* nonEmpty: a blank string counts as absent.                              *)
NonEmpty(value) == IF value = "" THEN Null ELSE value

(* `a ?? b`.                                                               *)
Or(a, b) == IF a = Null THEN b ELSE a

(* selectedTextOf.                                                         *)
SelectedText(capture) ==
  IF capture = NoCapture THEN <<>> ELSE Slice(capture.text, capture.start, capture.end)

(* emptyAxContext, and the fields the native capture leaves blank.         *)
AxText(capture) == IF capture = NoCapture THEN Captured(<<>>, 0, 0, <<>>, <<>>, Null) ELSE capture

(* mergeSessionContext: the application saved at the start names the       *)
(* target, whatever application the capture that followed found.           *)
Merge(target) ==
  LET bundle == NonEmpty(target.app.bundle)
      name == NonEmpty(target.app.name)
      title == NonEmpty(target.title)
  IN IF target.capture = NoCapture /\ {bundle, name, title} = {Null} THEN NoContext
     ELSE [bundle |-> bundle, name |-> name, title |-> title,
           domain |-> Null, ax |-> AxText(target.capture)]

(* appContextIdentityOf.                                                   *)
Identity(target) ==
  LET ax == Merge(target)
      Of(field) == IF ax = NoContext THEN Null ELSE ax[field]
  IN [bundle |-> Or(target.app.bundle, Of("bundle")),
      name |-> Or(target.app.name, Of("name")),
      title |-> Of("title"),
      domain |-> Of("domain")]

(* DEFAULT_APP_PROFILE_RULES, one application, domain and title of each.   *)
ProfileRules ==
  << [bundles |-> {"com.apple.Terminal"}, domains |-> {}, titles |-> {"Terminal"},
      profile |-> "code"],
     [bundles |-> {"com.apple.mail"}, domains |-> {"mail.google.com"}, titles |-> {},
      profile |-> "formal"],
     [bundles |-> {"com.tinyspeck.slackmacgap"}, domains |-> {"slack.com"}, titles |-> {},
      profile |-> "casual"] >>

(* firstProfileMatching over one kind of evidence.                         *)
FirstProfile(kind, evidence) ==
  LET hits == {i \in DOMAIN ProfileRules : evidence \in ProfileRules[i][kind]}
  IN IF hits = {} THEN Null ELSE ProfileRules[Min(hits)].profile

(* resolveAppProfile: the bundle decides, then the domain, then the title, *)
(* for which the application's name stands in.                             *)
Profile(id) ==
  Or(FirstProfile("bundles", id.bundle),
  Or(FirstProfile("domains", id.domain),
     FirstProfile("titles", Or(id.title, id.name))))

(* Variant: the profile is chosen by every name whatever the setting.      *)
ProfileIdentityKept(id, include) == id

(* modelProfileIdentityOf.                                                 *)
ProfileIdentity(id, include) ==
  IF include THEN id ELSE [id EXCEPT !.name = Null, !.title = Null, !.domain = Null]

(* buildAppContext for a session, which passes no clipboard.               *)
BuildAppContext(target, include) ==
  LET ax == Merge(target)
      text == IF ax = NoContext THEN AxText(NoCapture) ELSE ax.ax
  IN [identity |-> Identity(target),
      role |-> text.role,
      selection |-> SelectedText(target.capture),
      before |-> text.before,
      after |-> text.after,
      text |-> text.text,
      profile |-> Profile(ProfileIdentity(Identity(target), include)),
      include |-> include]

(* baseAxContextOf, projectedSelectionRange: nothing known, no context.    *)
BaseContext(ctx) ==
  IF /\ ctx.text = <<>> /\ ctx.role = Null /\ ctx.selection = <<>>
     /\ {ctx.identity[f] : f \in DOMAIN ctx.identity} = {Null}
  THEN NoContext
  ELSE [text |-> ctx.text,
        start |-> Len(ctx.before),
        end |-> Len(ctx.before) + Len(ctx.selection),
        before |-> ctx.before,
        after |-> ctx.after,
        role |-> ctx.role,
        bundle |-> ctx.identity.bundle,
        name |-> ctx.identity.name,
        title |-> ctx.identity.title,
        domain |-> ctx.identity.domain]

(* historyTargetContextOf: the user's own history keeps every name.        *)
HistoryContext(ctx) == BaseContext(ctx)

(* modelTargetContextOf.                                                   *)
ModelContext(ctx) ==
  LET base == BaseContext(ctx)
  IN IF base = NoContext \/ ctx.include THEN base
     ELSE [base EXCEPT !.name = Null, !.title = Null, !.domain = Null]

(* axContextBlock, appLabel: the rows of the context block, blank ones     *)
(* left out; without a row there is no block.                              *)
ContextRows(context) ==
  IF context = NoContext THEN {}
  ELSE {<<f, context[f]>> : f \in {g \in {"bundle", "name", "title", "domain", "role"} :
                                     NonEmpty(context[g]) # Null}}
       \cup {<<f, context[f]>> : f \in {g \in {"before", "after"} : context[g] # <<>>}}

(* assembleModelInput, transcriptionRequestFromModelInput and              *)
(* buildUserPromptWithContext: the evidence a request carries beside the   *)
(* mode's instruction, the hotwords and the audio or the transcript.       *)
Evidence(ctx) == [profile |-> ctx.profile, rows |-> ContextRows(ModelContext(ctx))]
=============================================================================
