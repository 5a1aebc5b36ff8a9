----------------------------- MODULE Connectors -----------------------------
(***************************************************************************)
(* One pull of a connector: it is built from its stored configuration,     *)
(* which resolves the secret named there, and then reads a GitHub          *)
(* repository, a file tree or a web page request by request, while the     *)
(* source changes under it and requests fail.  A failed request fails the  *)
(* pull as a whole, except the request for an issue's comments.            *)
(***************************************************************************)
EXTENDS Naturals, FiniteSets

CONSTANTS
    Paths,          \* paths of the file tree
    Shape,          \* what each path's name says, a PathShape
    Trees,          \* the trees to start from, a set of [Paths -> Contents]
    IssueIds,       \* issue numbers 1 .. n, in the order of creation
    PushContents,   \* what a push may leave at a path, a subset of Contents
    MaxChanges,     \* bound: changes of issues and of the tree
    IssuePage,      \* per_page of the request for issues
    CommentPage,    \* per_page of the request for comments
    Hosts,          \* hosts a URL may name
    PublicHosts,    \* the ones assert_url_is_public accepts
    MaxRequests     \* requests along one chain of redirects

\* What classify_path and is_text_file tell apart: a vendored, binary or lock
\* file; a prose path; an extension of the code list, or of the text list.
PathShape == [skip : BOOLEAN, prose : BOOLEAN, code : BOOLEAN, text : BOOLEAN]

\* A file: not there, text, only white space, over the size limit, or not UTF-8.
Contents == {"absent", "text", "newer text", "blank", "large", "bytes"}

ASSUME ConnectorsAssumption ==
    /\ Shape \in [Paths -> PathShape]
    /\ Trees \subseteq [Paths -> Contents] /\ Trees # {}
    /\ PushContents \subseteq Contents
    /\ IssueIds \subseteq Nat \ {0} /\ IsFiniteSet(IssueIds)
    /\ PublicHosts \subseteq Hosts
    /\ {IssuePage, CommentPage, MaxRequests} \subseteq Nat \ {0}

VARIABLES
    tree,           \* the files at the branch, or on disk
    pinned,         \* the files at the commit a sha names
    issues,         \* last change and number of comments; change 0: no issue yet
    pushes,
    pull            \* the pull

pullVars == <<tree, pinned, issues, pushes, pull>>

-----------------------------------------------------------------------------
(* The configuration *)

\* The stored configurations: the kind (a word ConnectorKind::parse does not
\* know is "slack"), whether the fields the kind needs are there, and for GitHub
\* the visibility, the auth_ref (with whether its variable is set) and the ref, a
\* branch (the default one when none is configured) or a commit.
\* A web page is read at its host, a file connector at a path or the whole tree.
GithubConfig ==
    [kind : {"github"}, complete : BOOLEAN, private : BOOLEAN,
     auth_ref : {"none", "resolves", "unset"}, ref : {"branch", "sha"}]
WebConfig == [kind : {"web"}, complete : BOOLEAN, host : Hosts]
FileConfig == [kind : {"file"}, complete : BOOLEAN, root : Paths \cup {"directory"}]
Configs == GithubConfig \cup WebConfig \cup FileConfig
           \cup [kind : {"slack"}, complete : BOOLEAN]

\* ConnectorKind::parse and validate_connector: what create_connector and
\* update_connector store.
ParseKind(cfg) == cfg.kind \in {"github", "web", "file"}
ValidateConnector(cfg) == ParseKind(cfg) /\ cfg.complete

\* resolve_github_auth: a named secret must resolve, and a private repository
\* needs one.
ResolveGithubAuth(cfg) ==
    CASE cfg.auth_ref = "resolves" -> "token"
      [] cfg.auth_ref = "unset" -> "refused"
      [] cfg.auth_ref = "none" -> IF cfg.private THEN "refused" ELSE "anonymous"

\* build_connector: the credentials of the connector, or "refused" (400).
BuildConnector(cfg) ==
    IF cfg.kind = "github" THEN ResolveGithubAuth(cfg) ELSE "anonymous"

\* GithubConnectorConfig::acl: build_connector configures no groups, so a private
\* repository gets its synthetic one.  The other kinds stamp no list.
AclOf(cfg) ==
    IF cfg.kind = "github" /\ cfg.private THEN {"github:owner/repo"} ELSE {}

-----------------------------------------------------------------------------
(* What the sources answer *)

\* classify_path: vendored, binary and lock files first.
ClassifyPath(s) ==
    CASE s.skip -> "skip"
      [] ~s.skip /\ s.prose -> "prose"
      [] ~s.skip /\ ~s.prose /\ s.code -> "code"
      [] OTHER -> "skip"

\* The tree at the ref the connector reads.
AtCommit(cfg) == cfg.kind = "github" /\ cfg.ref = "sha"
TreeAt(cfg) == IF AtCommit(cfg) THEN pinned ELSE tree

\* list_tree with the loop's filter, and collect_files.
PathsToRead(cfg) ==
    LET present == {p \in Paths : TreeAt(cfg)[p] # "absent"}
    IN CASE cfg.kind = "github" -> {p \in present : ClassifyPath(Shape[p]) # "skip"}
         [] cfg.kind = "file" ->
              IF cfg.root = "directory" THEN {p \in present : Shape[p].text} ELSE {cfg.root}

\* fetch_blob with the test for blank text, and read_doc: what reading a path
\* gives, a document, nothing, or an error.
BlobResult(content) ==
    CASE content \in {"absent", "bytes"} -> "error"
      [] content \in {"large", "blank"} -> "skipped"
      [] OTHER -> "document"
ReadResult(content) == IF content \in {"absent", "bytes"} THEN "error" ELSE "document"

\* Mutant: changes at the cursor's own time are left out.
ChangedAfter(since) == {i \in IssueIds : issues[i].at > since}

\* The issues the request returns that have changed since (all, when 0).
ChangedSince(since) == {i \in IssueIds : issues[i].at > 0 /\ issues[i].at >= since}

\* The newest IssuePage of them by creation.
FirstPage(S) == {i \in S : Cardinality({j \in S : j > i}) < IssuePage}

-----------------------------------------------------------------------------
(* The pull *)

Built(cfg, since) ==
    [step |-> cfg.kind, cfg |-> cfg, auth |-> BuildConnector(cfg), since |-> since,
     todo |-> {}, changed |-> 0, docs |-> {}, partial |-> {}, before |-> issues,
     pushed |-> FALSE, host |-> "none", asked |-> {}, requests |-> 0]

PullInit(start) ==
    /\ tree = start
    /\ pinned = start
    /\ issues = [i \in IssueIds |-> [at |-> 0, comments |-> 0]]
    /\ pushes = 0
    /\ pull = [step |-> "idle"]

\* A RawDocument: what it is of, its text, the comments in it, and its list.
Doc(kind, of, text, comments) ==
    [kind |-> kind, of |-> of, text |-> text, comments |-> comments, acl |-> AclOf(pull.cfg)]

InPull(step) == pull.step = step

\* index_connector builds the connector of a stored configuration and run_once
\* calls it with the cursor.
StartPull(cfg, since) ==
    /\ InPull("idle")
    /\ ValidateConnector(cfg) /\ BuildConnector(cfg) # "refused"
    /\ cfg.kind # "github" => since = 0     \* the others ignore it
    /\ pull' = Built(cfg, since)
    /\ UNCHANGED <<tree, pinned, issues, pushes>>

\* index_connector answers 400 and pulls nothing.
RefusePull(cfg) ==
    /\ InPull("idle")
    /\ ValidateConnector(cfg) /\ BuildConnector(cfg) = "refused"
    /\ pull' = [Built(cfg, 0) EXCEPT !.step = "refused"]
    /\ UNCHANGED <<tree, pinned, issues, pushes>>

\* A request fails (the host is down, the rate limit is reached, the repository
\* is gone) and `?` ends the pull; a root that is not there ends it as well.
\* Only requests are left at these steps.
PullFails ==
    /\ \/ pull.step \in {"github", "file", "tree"}
       \/ pull.step = "files" /\ (pull.todo # {} \/ pull.cfg.kind = "github")
       \/ pull.step = "asked"
    /\ pull' = [pull EXCEPT !.step = "failed", !.docs = {}]
    /\ UNCHANGED <<tree, pinned, issues, pushes>>

\* resolve_ref: the default branch is asked for, or the ref is configured.
ResolveRef ==
    /\ InPull("github")
    /\ pull' = [pull EXCEPT !.step = "tree"]
    /\ UNCHANGED <<tree, pinned, issues, pushes>>

\* list_tree, or the walk of the directory.
ListPaths ==
    /\ InPull("tree") \/ InPull("file")
    /\ pull' = [pull EXCEPT !.step = "files", !.todo = PathsToRead(pull.cfg)]
    /\ UNCHANGED <<tree, pinned, issues, pushes>>

\* One path is read, as it is now.
ReadPath(p) ==
    LET content == TreeAt(pull.cfg)[p]
        result == IF pull.cfg.kind = "github" THEN BlobResult(content)
                  ELSE ReadResult(content)
        doc == Doc("file", p, content, 0)
    IN /\ InPull("files") /\ p \in pull.todo
       /\ pull' = IF result = "error" THEN [pull EXCEPT !.step = "failed", !.docs = {}]
                  ELSE [pull EXCEPT !.todo = @ \ {p},
                          !.docs = IF result = "document" THEN @ \cup {doc} ELSE @]
       /\ UNCHANGED <<tree, pinned, issues, pushes>>

\* A file connector returns once every path is read.
FilesDone ==
    /\ InPull("files") /\ pull.todo = {} /\ pull.cfg.kind = "file"
    /\ pull' = [pull EXCEPT !.step = "done"]
    /\ UNCHANGED <<tree, pinned, issues, pushes>>

\* pull_issues: one page of the issues changed since the cursor.
ListIssues ==
    /\ InPull("files") /\ pull.todo = {} /\ pull.cfg.kind = "github"
    /\ LET changed == ChangedSince(pull.since)
       IN pull' = [pull EXCEPT !.step = "issues", !.todo = FirstPage(changed),
                               !.changed = Cardinality(changed)]
    /\ UNCHANGED <<tree, pinned, issues, pushes>>

\* issue_to_doc: a page of the comments, none of them when the request fails.
ReadIssue(i) ==
    /\ InPull("issues") /\ i \in pull.todo
    /\ \E failed \in BOOLEAN :
         LET all == issues[i].comments
             read == IF failed THEN 0 ELSE IF all > CommentPage THEN CommentPage ELSE all
         IN pull' = [pull EXCEPT !.todo = @ \ {i},
                                 !.docs = @ \cup {Doc("issue", i, "text", read)},
                                 !.partial = IF failed THEN @ \cup {i} ELSE @]
    /\ UNCHANGED <<tree, pinned, issues, pushes>>

IssuesDone ==
    /\ InPull("issues") /\ pull.todo = {}
    /\ pull' = [pull EXCEPT !.step = "done"]
    /\ UNCHANGED <<tree, pinned, issues, pushes>>

\* assert_url_is_public, by its verdict.
IsPublic(h) == h \in PublicHosts

\* The web connector guards its URL before the first request.
AskHost ==
    /\ InPull("web")
    /\ LET h == pull.cfg.host
       IN pull' = IF IsPublic(h)
                  THEN [pull EXCEPT !.step = "asked", !.host = h, !.asked = {h}, !.requests = 1]
                  ELSE [pull EXCEPT !.step = "failed"]
    /\ UNCHANGED <<tree, pinned, issues, pushes>>

\* safe_http_client: every hop of a redirect is guarded, and their number bounded.
FollowRedirect(h) ==
    /\ InPull("asked")
    /\ pull' = IF pull.requests < MaxRequests /\ IsPublic(h)
               THEN [pull EXCEPT !.host = h, !.asked = @ \cup {h}, !.requests = @ + 1]
               ELSE [pull EXCEPT !.step = "failed"]
    /\ UNCHANGED <<tree, pinned, issues, pushes>>

\* A successful answer is the document.
TakeBody ==
    /\ InPull("asked")
    /\ pull' = [pull EXCEPT !.step = "done", !.docs =
          {Doc("page", pull.cfg.host, "text", 0)}]
    /\ UNCHANGED <<tree, pinned, issues, pushes>>

\* The time of the last change of an issue.
Clock == CHOOSE t \in {issues[i].at : i \in IssueIds} \cup {0} :
             \A i \in IssueIds : issues[i].at <= t

\* Somebody pushes a change of a path,
Push(p, content) ==
    /\ pushes + Clock < MaxChanges /\ tree[p] # content
    /\ tree' = [tree EXCEPT ![p] = content]
    /\ pushes' = pushes + 1
    /\ pull' = IF InPull("idle") THEN pull ELSE [pull EXCEPT !.pushed = TRUE]
    /\ UNCHANGED <<pinned, issues>>

\* or opens or comments on an issue.
ChangeIssue(i) ==
    /\ pushes + Clock < MaxChanges
    /\ issues' = [issues EXCEPT ![i] =
          [at |-> Clock + 1, comments |-> IF @.at = 0 THEN 0 ELSE @.comments + 1]]
    /\ UNCHANGED <<tree, pinned, pushes, pull>>

PullNext ==
    \/ \E cfg \in Configs : RefusePull(cfg) \/ \E since \in 0 .. Clock : StartPull(cfg, since)
    \/ PullFails \/ ResolveRef \/ ListPaths
    \/ \E p \in Paths : ReadPath(p)
    \/ FilesDone \/ ListIssues \/ IssuesDone
    \/ \E i \in IssueIds : ReadIssue(i) \/ ChangeIssue(i)
    \/ AskHost \/ TakeBody
    \/ \E h \in Hosts : FollowRedirect(h)
    \/ \E p \in Paths, content \in PushContents : Push(p, content)

-----------------------------------------------------------------------------
(* Properties *)

Pulled == InPull("done")
FilesOf(docs) == {<<d.of, d.text>> : d \in {e \in docs : e.kind = "file"}}

\* The text a connector is meant to index, path by path.
Eligible(cfg) ==
    {<<p, TreeAt(cfg)[p]>> : p \in {q \in Paths :
        /\ TreeAt(cfg)[q] \in {"text", "newer text"}
        /\ cfg.kind = "github" => ~Shape[q].skip /\ (Shape[q].prose \/ Shape[q].code)
        /\ cfg.kind = "file" => IF cfg.root = "directory" THEN Shape[q].text ELSE q = cfg.root}}

\* A pull that succeeds has every file with text that its kind of connector
\* indexes, and none of a vendored tree, when nothing was pushed meanwhile or
\* the ref is a commit: one file that cannot be read fails the pull rather than
\* leave a gap.
FilesAreWhole ==
    Pulled /\ pull.cfg.kind \in {"github", "file"} /\ (pull.pushed => AtCommit(pull.cfg)) =>
        LET files == FilesOf(pull.docs)
        IN /\ Eligible(pull.cfg) \subseteq files
           /\ pull.cfg.kind = "github" => files \subseteq Eligible(pull.cfg)

\* A pull that succeeds has every issue that had changed at or after the cursor
\* when the pull began (when they fit a page), with the comments it had then (up
\* to a page of them), although issues change while it reads; only a failed
\* request for an issue's comments leaves them out.
IssuesAreWhole ==
    Pulled /\ pull.cfg.kind = "github" =>
        \A i \in IssueIds :
            pull.before[i].at > 0 /\ pull.before[i].at >= pull.since
                                 /\ pull.changed <= IssuePage =>
               \E d \in pull.docs :
                 /\ d.kind = "issue" /\ d.of = i
                 /\ \/ i \in pull.partial
                    \/ d.comments >= pull.before[i].comments \/ d.comments >= CommentPage

\* What comes from a private repository carries an access list, and was read
\* with a token.
PrivateIsScoped ==
    Pulled /\ pull.cfg.kind = "github" /\ pull.cfg.private =>
        pull.auth = "token" /\ \A d \in pull.docs : d.acl # {}

\* No request of a web pull goes to a host the guard refuses, at whatever hop
\* of a chain of redirects, and a chain ends.
AsksPublicHosts ==
    ~InPull("idle") => pull.asked \subseteq PublicHosts /\ pull.requests <= MaxRequests

\* What a pull promises the pipeline: it is whole or it fails, its documents
\* carry the access list of their source, and a web page came from hosts that
\* the guard accepts.
PullIsSound == FilesAreWhole /\ IssuesAreWhole /\ PrivateIsScoped /\ AsksPublicHosts
=============================================================================
