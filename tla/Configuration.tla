--------------------------- MODULE Configuration ---------------------------
(***************************************************************************)
(* What the configuration file decides before anything happens: whether    *)
(* the daemon starts with it, which listener answers which request and     *)
(* where it redirects to, who may reach the admin's pages, and what codes  *)
(* look like, from the generator to the customer's keyboard and back.      *)
(*                                                                         *)
(* All of it is a function of the file, which is read once.                *)
(***************************************************************************)
EXTENDS Integers, Sequences, SequencesExt, FiniteSets

CONSTANTS
  Files,   \* configuration files an operator may write
  Loaded,
  Width    \* bits of an address: 32 or 128 in the code

ASSUME ConfigurationAssumption ==
  /\ Width \in Nat \ {0}
  /\ Loaded \notin Files
  /\ \A c \in Files : /\ \A cidr \in c.networks : cidr.len \in Nat
                      /\ c.length \in Nat
                      /\ c.prefix \in Seq(Range(c.prefix))

VARIABLE
  config   \* the file, until it is Loaded

-----------------------------------------------------------------------------
(***************************************************************************)
(* Config::validate.  A text is "", "ok", or "bad" where the code has more *)
(* to say than that it is not empty.                                       *)
(***************************************************************************)

\* u16::MAX
MaxPort == 65535

ServerAccepted(c) ==
  /\ c.port \in 1..MaxPort
  /\ c.listen = "ok"
  /\ c.interfaces # {} /\ c.interfaces \subseteq {"ok"}
  /\ c.database # ""

AdminAccepted(c) ==
  /\ c.username # ""
  /\ c.password_hash = "ok"       \* Argon2id, and none known to be weak
  /\ c.session_timeout > 0

FirewallAccepted(c) ==
  c.nft_path # "" /\ c.table_name = "ok" /\ c.set_name = "ok"

TokenAccepted(c) ==
  /\ c.charset # {}
  /\ c.length >= 6 /\ c.length % 2 = 0
  /\ c.prefix # << >>

RateLimitAccepted(c) ==
  /\ c.max_auth_attempts > 0 /\ c.auth_window > 0
  /\ c.ban_after_attempts >= c.max_auth_attempts
  /\ c.ban_duration > 0

\* The grace period may be anything.
SessionAccepted(c) ==
  c.cleanup_interval > 0 /\ c.retention_days > 0 /\ c.audit_retention_days > 0

\* #RGB or #RRGGBB.  A digit that is none is 16.
IsValidHexColor(color) ==
  color.hash /\ Len(color.digits) \in {3, 6} /\ 16 \notin Range(color.digits)

PortalAccepted(c) ==
  /\ c.domain \notin {"", "bad"} /\ c.admin_domain \notin {"", "bad"}
  /\ c.domain # c.admin_domain
  /\ c.cafe_name \notin {"", "long"}
  /\ IsValidHexColor(c.theme_color)

TlsAccepted(c) ==
  /\ c.tls => c.cert_path # "" /\ c.key_path # ""
  /\ c.admin_port \in 1..MaxPort
  /\ c.admin_port # c.port

\* parse_cidr
ParsesAsCidr(cidr) == cidr.len <= Width

Accepted(c) ==
  /\ ServerAccepted(c) /\ AdminAccepted(c) /\ FirewallAccepted(c)
  /\ TokenAccepted(c) /\ RateLimitAccepted(c) /\ SessionAccepted(c)
  /\ PortalAccepted(c) /\ TlsAccepted(c)
  /\ \A cidr \in c.networks : ParsesAsCidr(cidr)

\* Config::load: what it refuses ends the process, and the operator thinks
\* again.
LoadConfig ==
  /\ config # Loaded
  /\ config' \in IF Accepted(config) THEN {Loaded} ELSE Files

Starting == {c \in {config} \ {Loaded} : Accepted(c)}

-----------------------------------------------------------------------------
(***************************************************************************)
(* Who may reach the admin's pages.                                        *)
(***************************************************************************)

\* An address is the set of its bits that are 1; & is the intersection.
Address == SUBSET (0..(Width - 1))

\* u32::MAX << n, by a shift that takes n modulo the width.
HighBits(n) == {bit \in 0..(Width - 1) : bit >= n % Width}

\* Mutant: no special case for a prefix of no bits.
InCidrUnguarded(ip, cidr) ==
  LET mask == HighBits(Width - cidr.len)
  IN ip \cap mask = cidr.net \cap mask

\* One family of addresses: an address of the other is in no such network.
InCidr(ip, cidr) ==
  \/ cidr.len = 0
  \/ LET mask == HighBits(Width - cidr.len)
     IN ip \cap mask = cidr.net \cap mask

\* admin_network_filter
LetsThrough(c, ip) ==
  c.networks = {} \/ \E cidr \in c.networks : InCidr(ip, cidr)

-----------------------------------------------------------------------------
(***************************************************************************)
(* Routes.  "session" pages ask for an admin session, "api" ones as well   *)
(* but answer 401; "client" pages ask for nothing that redirects.          *)
(***************************************************************************)

Route(path, get, post) == [path |-> path, get |-> get, post |-> post]

PortalRoutes ==
  {Route(p, "client", "none") :
     p \in {"/health", "/portal", "/portal/expired", "/portal/status",
            "/portal/status.json", "/portal/privacy", "/portal/plans",
            "/api/captive", "/static"}}
  \cup {Route("/portal/success", "success", "none"),
        Route("/portal/auth", "none", "auth")}

ProbeRoutes ==
  {Route(p, "probe", "none") :
     p \in {"/hotspot-detect.html", "/generate_204", "/connecttest.txt",
            "/check_network_status.txt"}}

AdminRoutes ==
  {Route("/admin", "session", "none"), Route("/admin/", "slash", "none"),
   Route("/admin/login", "client", "login"),
   Route("/admin/logout", "none", "logout"),
   Route("/admin/manage", "session", "session"),
   Route("/admin/audit", "session", "none"),
   Route("/admin/settings", "session", "session"),
   Route("/api/plans", "api", "api"), Route("/api/tokens", "api", "none"),
   Route("/api/tokens/generate", "none", "api"),
   Route("/api/sessions", "api", "none"), Route("/api/stats", "api", "none"),
   Route("/api/stats/weekly", "api", "none"),
   Route("/static", "client", "none")}

Listeners(c) == IF c.tls THEN {"portal", "admin"} ELSE {"combined"}

\* The routers of portal_router, admin_router and combined_router.  What is
\* under a path with an id answers as its collection does.
RoutesOf(listener) ==
  CASE listener = "portal" -> PortalRoutes \cup ProbeRoutes
    [] listener = "admin" -> AdminRoutes
    [] listener = "combined" -> PortalRoutes \cup ProbeRoutes \cup AdminRoutes

\* Mutant: one fallback for all.
FallbackToPortal(listener) == "/portal"

Fallback(listener) ==
  IF listener = "admin" THEN "/admin/login" ELSE "/portal"

\* build_portal_url, and the copy of it in the probes' handler: http://domain,
\* and the port unless it is the scheme's, which is written as 0 here.
UrlPort(c) == IF c.port = 80 THEN 0 ELSE c.port

\* Who listens on the port of such an URL.
ListenerAt(c, port) ==
  IF (IF port = 0 THEN 80 ELSE port) # c.port THEN "nobody"
  ELSE IF c.tls THEN "portal" ELSE "combined"

Page(listener, path) == [is |-> "page", listener |-> listener, path |-> path]
Forbidden(listener) == [is |-> "forbidden", listener |-> listener, path |-> ""]
Redirect(listener, path) ==
  [is |-> "redirect", listener |-> listener, path |-> path]

\* Whether a session is there, or a form is right, is left open here; an
\* error is a page.
AnswersOf(c, listener, path, kind) ==
  LET page == Page(listener, path)
      to(target) == Redirect(listener, target)
  IN CASE kind = "success" -> {page, to("/portal")}
       [] kind = "auth" -> {page, to("/portal/success")}
       [] kind = "probe" -> {Redirect(ListenerAt(c, UrlPort(c)), "/portal")}
       [] kind = "session" -> {page, to("/admin/login")}
       [] kind = "slash" -> {to("/admin"), to("/admin/login")}
       [] kind = "login" -> {page, to("/admin")}
       [] kind = "logout" -> {to("/admin/login")}
       [] OTHER -> {page}       \* a method that is not routed is a 405

Answers(c, listener, path, method, ip) ==
  IF listener = "admin" /\ ~LetsThrough(c, ip) THEN {Forbidden(listener)}
  ELSE LET routes == {r \in RoutesOf(listener) : r.path = path}
       IN IF routes = {} THEN {Redirect(listener, Fallback(listener))}
          ELSE UNION {AnswersOf(c, listener, path,
                                IF method = "GET" THEN r.get ELSE r.post)
                        : r \in routes}

\* A browser follows every redirect with a GET.
Follow(c, answers, ip) ==
  UNION {IF a.is = "redirect" THEN Answers(c, a.listener, a.path, "GET", ip)
         ELSE {a} : a \in answers}

-----------------------------------------------------------------------------
(***************************************************************************)
(* Codes.  Letters are "A" and "a", of which one is the capital of the     *)
(* other; "2" is a digit.                                                  *)
(***************************************************************************)

ToUpper(ch) == IF ch = "a" THEN "A" ELSE ch
ToLower(ch) == IF ch = "A" THEN "a" ELSE ch
Alphanumeric == {"A", "a", "2"}

\* generate_tokens
Generated(c) ==
  LET part == [1..(c.length \div 2) -> c.charset]
  IN {c.prefix \o <<"-">> \o p \o <<"-">> \o q : p \in part, q \in part}

\* validate_token_format: the prefix and a dash, half, a dash, half.
ValidTokenFormat(c, code) ==
  LET expected == c.prefix \o <<"-">>
      body == SubSeq(code, Len(expected) + 1, Len(code))
      half == c.length \div 2
  IN /\ IsPrefix(expected, code)
     /\ Len(body) = half + 1 + half
     /\ body[half + 1] = "-"
     /\ \A i \in DOMAIN body \ {half + 1} : body[i] \in c.charset

\* Rust's trim: what is between the first and the last that is no blank.
Trim(text) ==
  LET ink == {i \in DOMAIN text : text[i] # " "}
  IN IF ink = {} THEN << >> ELSE SubSeq(text, Min(ink), Max(ink))

\* Mutant: small letters stay small.
EnteredAsIs(text) == Trim(text)

\* portal_auth: trim and to_uppercase.
Entered(text) ==
  LET trimmed == Trim(text)
  IN [i \in DOMAIN trimmed |-> ToUpper(trimmed[i])]

\* What is kept of a text are the characters at these places, in their order.
KeptOf(text) == {i \in DOMAIN text : text[i] \in Alphanumeric}
Rank(i, kept) == Cardinality({j \in kept : j <= i})

\* replace(/[^A-Za-z0-9]/g, "")
Kept(text) ==
  LET kept == KeptOf(text)
      rank == [i \in kept |-> Rank(i, kept)]
  IN [k \in 1..Cardinality(kept) |-> text[CHOOSE i \in kept : rank[i] = k]]

\* The input's formatter: letters and digits, twelve at most, by fours.
Formatted(text) ==
  LET all == Kept(text)
      least(m, n) == IF m < n THEN m ELSE n
      raw == SubSeq(all, 1, least(Len(all), 12))
      part(from, to) == SubSeq(raw, from, least(Len(raw), to))
      dash(n) == IF Len(raw) > n THEN <<"-">> ELSE << >>
      plain == part(1, 4) \o dash(4) \o part(5, 8) \o dash(8) \o part(9, 12)
  IN [i \in DOMAIN plain |-> ToUpper(plain[i])]

\* A customer copies the code as it is printed, or all in small letters, with
\* a blank at the end that the keyboard adds.
Spellings(code) ==
  {code, [i \in DOMAIN code |-> ToLower(code[i])], Append(code, " ")}

-----------------------------------------------------------------------------
Paths == {r.path : r \in PortalRoutes \cup ProbeRoutes \cup AdminRoutes}
         \cup {"/unknown"}

(* Whatever is asked of a listener, three redirects later at most there is *)
(* a page of the same listener, or a refusal of the admin's; the addresses *)
(* the daemon advertises are served where they point to; and whoever runs  *)
(* into the captive portal by a probe or by any address sees the splash    *)
(* page.                                                                   *)
RequestsEnd ==
  \A c \in Starting : \A listener \in Listeners(c) : \A ip \in Address :
    /\ \A path \in Paths, method \in {"GET", "POST"} :
         LET first == Answers(c, listener, path, method, ip)
             last == Follow(c, Follow(c, Follow(c, first, ip), ip), ip)
         IN \A a \in last : /\ a.is = "page" \/ a = Forbidden("admin")
                            /\ a.listener = listener
    /\ \A path \in {"/portal", "/portal/plans", "/api/captive"} :
         LET at == ListenerAt(c, UrlPort(c))
         IN Answers(c, at, path, "GET", ip) = {Page(at, path)}
    /\ listener # "admin" =>
         \A path \in {r.path : r \in ProbeRoutes} \cup {"/unknown"} :
           Follow(c, Answers(c, listener, path, "GET", ip), ip)
             = {Page(listener, "/portal")}

(* With TLS the admin's pages are for the allowed networks only: an        *)
(* address belongs to one if its first bits are the network's, none of     *)
(* them for a prefix of length 0, and everybody else is refused.           *)
AdminForAllowedNetworks ==
  \A c \in Starting : \A ip \in Address :
    c.tls =>
      LET allowed == \/ c.networks = {}
                     \/ \E n \in c.networks :
                          \A bit \in (Width - n.len)..(Width - 1) :
                            bit \in ip <=> bit \in n.net
      IN allowed <=> Answers(c, "admin", "/admin/login", "GET", ip)
                       = {Page("admin", "/admin/login")}

\* What the customer types, or the formatter makes of it, is accepted, and as
\* the code that was sold.
Enters(c, text, code) ==
  Entered(text) = code /\ ValidTokenFormat(c, Entered(text))

(* Which of the codes that are sold can be entered, for any file the daemon*)
(* starts with: in any spelling, just those without a small letter and     *)
(* without a blank at an end (validate lets prefix and alphabet hold both);*)
(* and through the page's formatter just those of four capital letters and *)
(* digits, four and four (the file may ask for any prefix and any even     *)
(* length from 6 on).                                                      *)
CodesEnterable ==
  \A c \in Starting : \A code \in Generated(c) : \A text \in Spellings(code) :
    /\ Enters(c, text, code)
         <=> "a" \notin Range(code) /\ code[1] # " " /\ code[Len(code)] # " "
    /\ Enters(c, Formatted(text), code)
         <=> /\ Len(c.prefix) = 4 /\ c.length = 8
             /\ \A i \in DOMAIN code \ {5, 10} : code[i] \in {"A", "2"}
=============================================================================
