------------------------------ MODULE Config -------------------------------
(***************************************************************************)
(* XXLJobConfig: reading and checking the settings in init_app, and the    *)
(* check of the loaded object before a start of the Registry or a call of  *)
(* it.  The two read the same settings, each in a form of its own.         *)
(*                                                                         *)
(* A path or a URL is a sequence of tokens: "/", "." and "a" for another   *)
(* character of a segment, "?" for any character that is refused.  In a    *)
(* URL the scheme is one token and so is a port; the host is made of       *)
(* letters "l", digits "d", "-", "." and letters beyond ASCII "u".  What   *)
(* urlsplit and Flask's url_prefix do is modelled from their use.  A value *)
(* of another setting is a pair of its type and of what is looked at; of a *)
(* setting that has a field of its own the pair says only the type.        *)
(***************************************************************************)
EXTENDS Integers, SequencesExt

CONSTANT Settings   \* the mappings that init_app is given

Booleans == {"ENABLED", "AUTO_REGISTER", "DEREGISTER_ON_EXIT", "FAILOVER_ON_HTTP_ERROR", "FAILOVER_ON_INVALID_JSON",
             "FAILOVER_ON_BUSINESS_ERROR", "LOG_ENABLED", "LOG_FILE_ENABLED",
             "LOG_CONSOLE_ENABLED", "LOG_PROPAGATE"}
Positive == {"REGISTRY_INTERVAL", "HTTP_CONNECT_TIMEOUT", "HTTP_READ_TIMEOUT",
             "CALLBACK_MESSAGE_MAX_LENGTH", "MAX_REQUEST_SIZE", "MAX_PARAM_LENGTH",
             "CALLBACK_BATCH_MAX_SIZE", "LOG_MAX_BYTES"}
Counts   == {"ADMIN_RETRY_COUNT", "LOG_BACKUP_COUNT"}
NonEmpty == {"LOG_FORMAT", "LOG_PATH", "LOG_FILENAME", "LOG_ENCODING"}
Strict   == {"ROUTE_PREFIX", "EXECUTOR_ADDRESS", "LOG_DATE_FORMAT"}
Optional == {"EXECUTOR_APP_NAME", "ACCESS_TOKEN"}   \* None is the empty string

\* The settings that are read again before the Registry is used.
RegistryKeys == {"REGISTRY_INTERVAL", "HTTP_CONNECT_TIMEOUT", "HTTP_READ_TIMEOUT",
                 "ADMIN_RETRY_COUNT", "ADMIN_RETRY_BACKOFF", "FAILOVER_ON_HTTP_ERROR",
                 "FAILOVER_ON_INVALID_JSON", "FAILOVER_ON_BUSINESS_ERROR"}

VARIABLES given,    \* the mapping
          config,   \* the XXLJobConfig
          at,       \* "raw", "refused" or "loaded"
          outcome   \* of the use of the Registry: "none", "disabled", "refused" or "call"

vars == <<given, config, at, outcome>>

-----------------------------------------------------------------------------
(* Paths and URLs *)

\* str.split("/"), rstrip("/") and lstrip("/").
Split(s) ==
  LET Put(segments, c) == IF c = "/" THEN Append(segments, << >>)
                          ELSE [segments EXCEPT ![Len(segments)] = Append(@, c)]
  IN  FoldLeft(Put, << << >> >>, s)

RightStrip(s) == SubSeq(s, 1, SelectLastInSeq(s, LAMBDA c : c # "/"))
LeftStrip(s)  == Reverse(RightStrip(Reverse(s)))

JoinUrl(base, path) ==
  LET trimmed == LeftStrip(RightStrip(path))
  IN  RightStrip(base) \o (IF trimmed = << >> THEN << >> ELSE <<"/">> \o trimmed)

Dots == {<<".">>, <<".", ".">>}

\* A prefix without the one slash that may open it and the one that may close it.
Opened(p) == IF p # << >> /\ Head(p) = "/" THEN Tail(p) ELSE p
Bare(p)   == Reverse(Opened(Reverse(Opened(p))))

\* Mutation: only ".." is looked for.
PrefixRefusedUp(p) ==
  /\ p \notin {<< >>, <<"/">>}
  /\ \/ Contains(p, "?")
     \/ \E i \in 1 .. Len(p) - 1 : p[i] = "/" /\ p[i + 1] = "/"
     \/ Bare(p) = << >>
     \/ Contains(Split(Bare(p)), <<".", ".">>)

PrefixRefused(p) ==
  /\ p \notin {<< >>, <<"/">>}
  /\ \/ Contains(p, "?")
     \/ \E i \in 1 .. Len(p) - 1 : p[i] = "/" /\ p[i + 1] = "/"
     \/ Bare(p) = << >>
     \/ Dots \cap ToSet(Split(Bare(p))) # {}

\* Mutation: the slash at the end stays.
NormalizePrefixOpen(p) == IF p \in {<< >>, <<"/">>} THEN << >> ELSE <<"/">> \o Opened(p)

\* _normalize_prefix of a prefix that is not refused.
NormalizePrefix(p) == IF p \in {<< >>, <<"/">>} THEN << >> ELSE <<"/">> \o Bare(p)

\* Mutation: an address that ends with the prefix is left alone.
AdvertisedOnce(address, prefix) ==
  LET base == RightStrip(address)
  IN  IF base = << >> \/ IsSuffix(prefix, base) THEN base ELSE JoinUrl(base, prefix)

\* _apply_route_prefix(_normalize_address(address), prefix).
Advertised(address, prefix) ==
  LET base == RightStrip(address)
  IN  IF base = << >> \/ prefix = << >> THEN base ELSE JoinUrl(base, prefix)

\* urlsplit: what stands between "//" and the next slash, and what follows it.
Rest(u)   == SubSeq(u, 4, Len(u))
NetLoc(u) == IF IsPrefix(<<"/", "/">>, Tail(u)) THEN Split(Rest(u))[1] ELSE << >>
Path(u)   == SubSeq(u, 4 + Len(NetLoc(u)), Len(u))

Ports   == {":8080", ":0", ":x"}
Host(u) == SelectSeq(NetLoc(u), LAMBDA c : c \notin Ports)

Labels(h) == LET Put(labels, c) == IF c = "." THEN Append(labels, << >>)
                                   ELSE [labels EXCEPT ![Len(labels)] = Append(@, c)]
             IN  FoldLeft(Put, << << >> >>, h)

\* IDNA writes a label that is not ASCII with other characters at both ends.
Idna(label) == IF Contains(label, "u")
               THEN <<"l">> \o SelectSeq(label, LAMBDA c : c # "u") \o <<"l">> ELSE label

IsIPv4(h) == Len(Labels(h)) = 4 /\ \A i \in 1 .. 4 : Labels(h)[i] = <<"d">>

IsValidHostname(h) ==
  \/ IsIPv4(h)
  \/ LET named == IF h # << >> /\ Last(h) = "." THEN Front(h) ELSE h
     IN  /\ \E i \in 1 .. Len(h) : h[i] \notin {"d", "."}
         /\ \A i \in 1 .. Len(Labels(named)) :
              LET label == Idna(Labels(named)[i]) IN
              /\ label # << >>
              /\ {label[1], Last(label)} \subseteq {"l", "d"}
              /\ ToSet(label) \subseteq {"l", "d", "-"}

\* _validate_http_url: no blank, query, fragment or user, a host and a port.
UrlAccepted(u) ==
  /\ u # << >> /\ ToSet(u) \cap {"?", "@", ":0", ":x"} = {}
  /\ u[1] = "http:"
  /\ IsValidHostname(Host(u))

-----------------------------------------------------------------------------
(* The other settings *)

IsNumber(v)  == v[1] \in {"int", "float"}

\* The _as_... reader of each setting, the log level, encoding and format
\* included, whose accepted values are "fit".
Accepted(key, v) ==
  CASE key \in Booleans             -> v[1] = "bool"
    [] key \in Positive             -> v[1] = "int" /\ v[2] > 0
    [] key \in Counts               -> v[1] = "int" /\ v[2] >= 0
    [] key = "ADMIN_RETRY_BACKOFF"  -> IsNumber(v) /\ v[2] >= 0
    [] key = "LOG_LEVEL"            -> v = <<"str", "fit">>
    [] key \in {"LOG_FORMAT", "LOG_ENCODING"} -> v = <<"str", "fit">>
    [] key \in NonEmpty             -> v[1] = "str" /\ v[2] # ""
    [] key \in Strict               -> v[1] = "str"
    [] key \in Optional             -> v[1] \in {"str", "none"}
    [] key = "ADMIN_ADDRESSES"      -> v[1] = "str" \/ v = <<"list", "fit">>

\* What is left of the addresses: _as_str_list drops the empty items.
Addresses(g) == g.admins \ {<< >>}

Named(g) == g.key = "EXECUTOR_APP_NAME" => g.value \notin {<<"str", "">>, <<"none", "">>}

\* _validate_removed_configs comes before everything else, also when the
\* extension is disabled; the other readers run in both cases, the URLs and the
\* prefix are interpreted only when it is enabled.
Refused(g) ==
  \/ g.removedKey
  \/ ~Accepted(g.key, g.value)
  \/ g.enabled /\ \/ PrefixRefused(g.prefix)
                  \/ \E u \in Addresses(g) : ~UrlAccepted(RightStrip(u))
                  \/ LET a == Advertised(g.address, NormalizePrefix(g.prefix))
                     IN  a # << >> /\ ~UrlAccepted(a)

Loaded(g) ==
  [enabled |-> g.enabled, key |-> g.key,
   value   |-> IF g.key = "ADMIN_RETRY_BACKOFF" THEN <<"float", g.value[2]>> ELSE g.value,
   prefix  |-> IF g.enabled THEN NormalizePrefix(g.prefix) ELSE g.prefix,
   address |-> IF g.enabled THEN Advertised(g.address, NormalizePrefix(g.prefix)) ELSE g.address,
   admins  |-> IF g.enabled THEN {RightStrip(u) : u \in Addresses(g)} ELSE Addresses(g)]

\* Mutation: the backoff, which is loaded as a float, is read as an integer again.
RegistryAcceptedInteger(c) ==
  /\ Named(c) /\ c.admins # {} /\ c.address # << >>
  /\ \A u \in c.admins : UrlAccepted(u)
  /\ UrlAccepted(c.address)
  /\ c.key \in RegistryKeys => Accepted(c.key, c.value)
  /\ c.key = "ADMIN_RETRY_BACKOFF" => c.value[1] = "int"

\* validate_registry.
RegistryAccepted(c) ==
  /\ Named(c) /\ c.admins # {} /\ c.address # << >>
  /\ \A u \in c.admins : UrlAccepted(u)
  /\ UrlAccepted(c.address)
  /\ c.key \in RegistryKeys => Accepted(c.key, c.value)

-----------------------------------------------------------------------------

Init ==
  /\ given \in Settings
  /\ config = Loaded([given EXCEPT !.enabled = FALSE])
  /\ at = "raw"
  /\ outcome = "none"

\* The preflight of init_app.
InitApp ==
  /\ at = "raw"
  /\ IF Refused(given) \/ (given.enabled /\ given.auto /\ ~RegistryAccepted(Loaded(given)))
     THEN at' = "refused" /\ UNCHANGED config
     ELSE at' = "loaded" /\ config' = Loaded(given)
  /\ UNCHANGED <<given, outcome>>

\* start_registry, register_executor, remove_executor, stop_registry(remove=True).
UseRegistry ==
  /\ at = "loaded" /\ outcome = "none"
  /\ outcome' = IF ~config.enabled THEN "disabled"
                ELSE IF RegistryAccepted(config) THEN "call" ELSE "refused"
  /\ UNCHANGED <<given, config, at>>

Next == InitApp \/ UseRegistry

Spec == Init /\ [][Next]_vars

-----------------------------------------------------------------------------
(* The routes of the executor *)

Endpoint == <<"/", "run">>

\* executor_paths: what the routing hook of the blueprint compares with.
ExecutorPath(prefix) == prefix \o Endpoint

\* Flask mounts the route of a blueprint below its url_prefix.
MountedRule(prefix) ==
  IF prefix = << >> THEN Endpoint ELSE RightStrip(prefix) \o <<"/">> \o LeftStrip(Endpoint)

\* The Admin calls the endpoint below the registered address.
CalledUrl(address) == RightStrip(address) \o Endpoint

-----------------------------------------------------------------------------
(* Properties *)

Enabled == at = "loaded" /\ config.enabled

\* The segments of a path, the empty ones left out.
Segments(path) == SelectSeq(Split(path), LAMBDA s : s # << >>)

\* The Admin reaches the executor: the URL it calls has the host that was
\* configured, and its path is the context path that was configured followed by
\* the route that is mounted.
AdvertisedIsServed ==
  Enabled /\ config.address # << >> =>
    /\ NetLoc(CalledUrl(config.address)) = NetLoc(given.address)
    /\ Segments(Path(CalledUrl(config.address))) =
         Segments(Path(given.address)) \o Segments(MountedRule(config.prefix))

\* The hook that answers routing errors in the protocol's form knows the routes
\* by the very paths under which they are mounted.
RoutesAreHooked == Enabled => ExecutorPath(config.prefix) = MountedRule(config.prefix)

\* One prefix, normalised once, gives the address that is announced, the route
\* that is mounted and the path that is hooked: the three agree.
PathsAgree == AdvertisedIsServed /\ RoutesAreHooked

\* A prefix is accepted exactly if it is "/" or segments that a static route may
\* have, with or without a slash at each end (docs/configuration.md), and it
\* keeps its segments.
PlainPrefixes(segments) ==
  LET inner == FlattenSeq([i \in 1 .. Len(segments) |-> <<"/">> \o segments[i]])
  IN  IF segments = << >> THEN {<< >>, <<"/">>}
      ELSE {inner, Tail(inner), inner \o <<"/">>, Tail(inner) \o <<"/">>}

PrefixRule ==
  given.enabled /\ at # "raw" =>
    LET segments == Segments(given.prefix)
        plain == /\ given.prefix \in PlainPrefixes(segments)
                 /\ \A i \in 1 .. Len(segments) :
                      segments[i] \notin Dots /\ ~Contains(segments[i], "?")
    IN  /\ ~plain => at = "refused"
        /\ at = "loaded" => Segments(config.prefix) = segments
        /\ plain /\ at = "refused" =>
             Refused([given EXCEPT !.prefix = << >>]) \/ ~RegistryAccepted(Loaded(given))

\* The check of the loaded object refuses what is incomplete and nothing else:
\* settings that init_app let pass, with a name, an Admin and an address of the
\* executor, can start the Registry and call it, though they are read again in
\* the form in which they were loaded; and an enabled extension without one of
\* the three neither starts by itself nor calls (validate and validate_registry).
Complete(g) == Named(g) /\ Addresses(g) # {} /\ RightStrip(g.address) # << >>

RegistryRefusesOnlyTheIncomplete ==
  /\ at = "loaded" /\ given.enabled /\ given.auto => Complete(given)
  /\ outcome = "call" => given.enabled /\ Complete(given)
  /\ outcome = "refused" => ~Complete(given)

=============================================================================
