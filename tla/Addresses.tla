------------------------------ MODULE Addresses ------------------------------
(***************************************************************************)
(* What is served at an address.                                           *)
(*                                                                         *)
(*   app/main.py     SubdomainMiddleware, tls_check                        *)
(*   app/hosting.py  resolve_host, serve_space, _pick_deployment,          *)
(*                   _serve_static, _file                                  *)
(*                                                                         *)
(* A host name is its labels, whatever their case, port or final dot.  A   *)
(* path is /@space/rest or /u/space/rest, or /rest when it has no space;   *)
(* rest is its segments that are not empty.  The workspace has no symbolic *)
(* links, so that no path leaves the published directory (hosting.py:355). *)
(***************************************************************************)
EXTENDS Naturals, Sequences, SequencesExt, FiniteSets

CONSTANTS
  Owner,             (* the user of the space                               *)
  NoSpace,           (* None                                                *)
  HostNames,         (* sequences of labels                                 *)
  Domain,            (* the owner's custom domain                           *)
  Files,             (* what may be in the workspace: paths from its root   *)
  Sites,             (* deployments that may exist                          *)
  FirstNames,        (* first segments that PLATFORM_PREFIXES are a prefix of *)
  HiddenNames,       (* names that start with a dot                         *)
  SuffixNames,       (* names with a suffix                                 *)
  Rests              (* the segments that are asked for                     *)

(* The name of a deployment has no dot (NAME_RE of app/operations.py), and *)
(* hence no suffix.                                                        *)
ASSUME AddressesAssumption ==
  /\ Files \subseteq Seq(STRING) \ {<<>>} /\ Rests \subseteq Seq(STRING)
  /\ Sites \subseteq [name : STRING \ SuffixNames, kind : {"static", "service"},
                      source_dir : Seq(STRING), default : BOOLEAN]
  /\ "index.html" \in SuffixNames \ HiddenNames
  /\ Owner # NoSpace

VARIABLES
  active,            (* the account is not suspended                        *)
  tree,              (* the files that exist                                *)
  sites,             (* the rows of its deployments                         *)
  visit              (* the last request and its response                   *)

addressVars == <<active, tree, sites, visit>>

Base == <<"base">>
Public == <<"public">>
Index == <<"index.html">>
Paths == [space : {Owner, "nobody", NoSpace}, rest : Rests]

----------------------------------------------------------------------------
(* Names to spaces                                                         *)

Below(host) == Len(host) > 1 /\ Last(host) = Base[1]

resolve_host(host) ==
  IF host \in {Base, <<"www">> \o Base, <<"localhost">>} THEN NoSpace
  ELSE IF Below(host) THEN IF Len(host) = 2 THEN host[1] ELSE NoSpace
  ELSE IF host = Domain THEN Owner ELSE NoSpace

Platform(path) == path.space = NoSpace /\ path.rest # <<>> /\ path.rest[1] \in FirstNames

SubdomainMiddleware(host, path) ==
  IF Platform(path) \/ path.space # NoSpace \/ resolve_host(host) = NoSpace
  THEN path
  ELSE [path EXCEPT !.space = resolve_host(host)]

tls_check(host) == host = Base \/ Below(host) \/ (host = Domain /\ active)

----------------------------------------------------------------------------
(* Paths to files                                                          *)

is_file(p) == p \in tree
is_dir(p) == p = <<>> \/ \E f \in tree : IsStrictPrefix(p, f)
Entries(p) == {f[Len(p) + 1] : f \in {g \in tree : IsStrictPrefix(p, g)}}
Hidden(segments) == \E n \in DOMAIN segments : segments[n] \in HiddenNames

(* _file: a validator that matches saves the body.                         *)
_file(target, if_none_match) ==
  [is |-> IF target \in if_none_match THEN "unchanged" ELSE "file", at |-> target]
Says(what) == [is |-> what, at |-> <<>>]

(* _proxy_to_service: the container of the deployment is asked.            *)
Proxied(d, segments) == [is |-> "service", at |-> <<d.name>> \o segments]

_serve_static(base, segments, of_public, if_none_match) ==
  LET target == base \o segments
      visible == Entries(target) \ HiddenNames
  IN IF Hidden(segments) THEN Says("refused")
     ELSE IF is_dir(target)
     THEN IF is_file(target \o Index) THEN _file(target \o Index, if_none_match)
          ELSE IF visible = {} /\ of_public THEN Says("nothing here")
          ELSE [is |-> "listing", at |-> target]
     ELSE IF is_file(target) THEN _file(target, if_none_match)
     ELSE IF is_file(base \o Index) /\ (segments = <<>> \/ Last(segments) \notin SuffixNames)
     THEN _file(base \o Index, if_none_match)
     ELSE Says("missing")

(* Mutant of _pick_deployment: a default is asked before the names.        *)
_pick_deployment_DefaultFirst(segments) ==
  LET default == {d \in sites : d.default}
      first == IF segments = <<>> THEN {} ELSE {d \in sites : d.name = segments[1]}
  IN IF default # {} THEN <<default, segments>>
     ELSE IF first # {} THEN <<first, Tail(segments)>>
     ELSE <<IF Cardinality(sites) = 1 THEN sites ELSE {}, segments>>

(* The deployment, if there is one, and the segments that remain.          *)
_pick_deployment(segments) ==
  LET named(n) == {d \in sites : d.name = n}
      default == {d \in sites : d.default}
      first == IF segments = <<>> THEN {} ELSE named(segments[1])
      fallback == IF default # {} THEN default
                  ELSE IF Cardinality(sites) = 1 THEN sites
                  ELSE IF named("site") # {} THEN named("site") ELSE named("www")
  IN IF first # {} THEN <<first, Tail(segments)>> ELSE <<fallback, segments>>

serve_space(space, segments, if_none_match) ==
  LET picked == _pick_deployment(segments)
      d == CHOOSE s \in picked[1] : TRUE
  IN IF space # Owner \/ ~active THEN Says("no such space")
     ELSE IF picked[1] = {}
     THEN IF segments = <<>> /\ ~is_file(Public \o Index) THEN Says("profile")
          ELSE IF ~is_dir(Public) THEN Says("nothing here")
          ELSE _serve_static(Public, segments, TRUE, if_none_match)
     ELSE IF d.kind = "service" THEN Proxied(d, picked[2])
     ELSE _serve_static(d.source_dir, picked[2], FALSE, if_none_match)

Answer(host, path, if_none_match) ==
  LET routed == SubdomainMiddleware(host, path)
  IN IF routed.space # NoSpace THEN serve_space(routed.space, routed.rest, if_none_match)
     ELSE Says(IF Platform(routed) THEN "platform" ELSE "apex")

----------------------------------------------------------------------------
NoVisit == [host |-> Base, path |-> [space |-> NoSpace, rest |-> <<>>], tags |-> {},
            answer |-> Says("apex")]

(* (Bound: one request, for it leaves nothing behind that another one      *)
(* would meet.)                                                            *)
Visit(host, path, if_none_match) ==
  /\ visit = NoVisit
  /\ visit' = [host |-> host, path |-> path, tags |-> if_none_match,
               answer |-> Answer(host, path, if_none_match)]
  /\ UNCHANGED <<active, tree, sites>>

(* A file is no directory.  The name of a deployment is unique, and so is  *)
(* the default.                                                            *)
AddressInit ==
  /\ active \in BOOLEAN
  /\ tree \in {t \in SUBSET Files : \A f, g \in t : ~IsStrictPrefix(f, g)}
  /\ sites \in {s \in SUBSET Sites : /\ \A c, d \in s : c.name = d.name => c = d
                                     /\ \A c, d \in s : c.default /\ d.default => c = d}
  /\ visit = NoVisit

----------------------------------------------------------------------------
(* What is published, and under which segments.                            *)
Published(rest, f) ==
  \/ sites = {} /\ rest # <<>> /\ f = Public \o rest
  \/ /\ rest # <<>>
     /\ \E d \in sites : /\ d.kind = "static" /\ d.name = rest[1]
                         /\ f = d.source_dir \o Tail(rest)
Bases == {Public} \cup {d.source_dir : d \in sites}

(* An account has one site, whichever of its names it is reached by, and a *)
(* certificate for that name: "Writing a file here is the entire publish   *)
(* step", a deployment is always reached under its name, nothing hidden or *)
(* outside the published directories is ever sent, and a path that names a *)
(* file is never answered with another one: "answering that with the front *)
(* page and a 200 would make a deleted page look alive".                   *)
Routed ==
  LET p == visit.path  a == visit.answer  u == resolve_host(visit.host)
      sent == a.is \in {"file", "unchanged"}
  IN /\ p.space = NoSpace /\ u # NoSpace /\ ~Platform(p) =>
          /\ a = Answer(Base, [p EXCEPT !.space = u], visit.tags)
          /\ sent => tls_check(visit.host)
     /\ p.space = Owner /\ active =>
          \A f \in tree : Published(p.rest, f) /\ ~Hidden(p.rest) =>
                          a.at = f /\ (a.is = "file" <=> f \notin visit.tags)
     /\ p.space = Owner /\ active =>
          \A d \in sites : p.rest # <<>> /\ p.rest[1] = d.name /\ d.kind = "service" =>
                           a = Proxied(d, Tail(p.rest))
     /\ sent =>
          /\ a.at \in tree /\ (a.is = "unchanged" => a.at \in visit.tags)
          /\ \E b \in Bases : IsPrefix(b, a.at) /\ ~Hidden(SubSeq(a.at, Len(b) + 1, Len(a.at)))
          /\ p.rest # <<>> /\ Last(p.rest) \in SuffixNames =>
               \E n \in DOMAIN a.at : a.at[n] = Last(p.rest)
===============================================================================
