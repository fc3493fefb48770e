----------------------------- MODULE References -----------------------------
(***************************************************************************)
(* pkg/classify and internal/extract: which references an issue makes.     *)
(*                                                                         *)
(* A text that may be a link is a member of Keys (a bare issue key), of    *)
(* Urls, or neither.  Form gives what Classify reads off a URL: its host,  *)
(* the key of a /browse/<KEY> path, the "owner/repo#n" of a path that      *)
(* starts with /owner/repo/pull/n, n > 0, and whether more path follows.   *)
(***************************************************************************)
EXTENDS Naturals, Sequences, SequencesExt, Texts

CONSTANTS Keys,     \* issue keys, in upper case
          Urls,     \* URLs
          Form      \* what each URL consists of

ASSUME FormAssumption ==
  /\ Form \in [Urls -> [host : {"site", "github", "other"},
                        key : Keys \cup {Empty}, pr : STRING, more : BOOLEAN]]
  /\ Empty \notin Keys \cup Urls
  /\ Keys \cap Urls = {}

Result(kind, key, url, pr) == [kind |-> kind, key |-> key, url |-> url, pr |-> pr]

MatchesJiraURL(u)  == Form[u].host = "site" /\ Form[u].key # Empty
MatchesGitHubPR(u) == Form[u].host = "github" /\ Form[u].pr # Empty /\ ~Form[u].more

(* The rules in their order: a bare key, no URL at all, an issue of the    *)
(* configured site, a pull request, anything else.                         *)
Classify(x) ==
  IF x \in Keys THEN Result("jira", x, Empty, Empty)
  ELSE IF x \notin Urls THEN Result("external", Empty, Empty, Empty)
  ELSE IF MatchesJiraURL(x) THEN Result("jira", Form[x].key, x, Empty)
  ELSE IF MatchesGitHubPR(x) THEN Result("github_pr", Empty, x, Form[x].pr)
  ELSE Result("external", Empty, x, Empty)

Ref(result, text) ==
  [kind |-> result.kind, key |-> result.key, url |-> result.url,
   pr |-> result.pr, text |-> text]

(* Every related issue is a reference by key, whatever its key looks like. *)
Related(s) == [i \in DOMAIN s |-> Ref(Result("jira", s[i].key, Empty, Empty), s[i].text)]
Linked(s)  == [i \in DOMAIN s |-> Ref(Classify(s[i].url), s[i].text)]

(***************************************************************************)
(* An issue holds, in sequences: the links of its description and its      *)
(* remote links ([url, text]), and its parent (at most one), subtasks and  *)
(* issue links ([key, text]).  References keep this order and repeat what  *)
(* is repeated.                                                            *)
(***************************************************************************)
Extract(issue) ==
     Linked(issue.description) \o Related(issue.parent) \o Related(issue.subtasks)
  \o Related(issue.links) \o Linked(issue.remotes)
=============================================================================
