----------------------------- MODULE MCSettings -----------------------------
(* Settings for TLC: the values of its constants, and the symmetry.        *)
EXTENDS Settings, TLC

Hash(digits) == [hash |-> TRUE, digits |-> digits]

\* config/didicafe.toml, with a hash that is accepted, for addresses of three
\* bits and an alphabet of two characters.
Delivered ==
  [port |-> 8080, listen |-> "ok", interfaces |-> {"ok"}, database |-> "ok",
   username |-> "ok", password_hash |-> "ok", session_timeout |-> 3600,
   networks |-> {}, nft_path |-> "ok", table_name |-> "ok", set_name |-> "ok",
   prefix |-> <<"A", "A", "A", "A">>, charset |-> {"A", "2"}, length |-> 8,
   max_auth_attempts |-> 5, auth_window |-> 60, ban_after_attempts |-> 10,
   ban_duration |-> 900, cleanup_interval |-> 30, retention_days |-> 90,
   audit_retention_days |-> 365, domain |-> "portal",
   admin_domain |-> "admin", cafe_name |-> "ok",
   theme_color |-> Hash(<<11, 4, 5, 3, 0, 9>>), tls |-> TRUE,
   cert_path |-> "ok", key_path |-> "ok", admin_port |-> 443]

Change(fields, values) == {<<f, v>> : f \in fields, v \in values}

\* What decides about requests and addresses.
NetworkChanges ==
  Change({"port"}, {0, 80, 443, 65536}) \cup Change({"admin_port"}, {80, 8443})
  \cup Change({"tls"}, {FALSE})
  \cup Change({"networks"},
         {{[net |-> {0, 2}, len |-> len]} : len \in 0..4}
         \cup {{[net |-> {0}, len |-> 3], [net |-> {1, 2}, len |-> 2]}})

\* What decides about codes.
FormatChanges ==
  Change({"prefix"}, {<< >>, <<"A", "2">>, <<"a", "a", "a", "a">>,
                      <<"A", "-", " ", "A">>, <<" ", "A", "2", "A">>})
  \cup Change({"charset"}, {{}, {"a", "2"}, {"A", "-"}, {"A", " "}})
  \cup Change({"length"}, {4, 6, 7, 10})

OtherChanges ==
  Change({"listen", "domain", "admin_domain"}, {"", "bad"})
  \cup Change({"interfaces"}, {{}, {"ok", "bad"}})
  \cup Change({"domain"}, {"admin"})
  \cup Change({"database", "username", "password_hash", "nft_path", "cafe_name",
               "table_name", "set_name", "cert_path", "key_path"}, {""})
  \cup Change({"session_timeout", "max_auth_attempts", "auth_window",
               "ban_duration", "cleanup_interval", "retention_days",
               "audit_retention_days"}, {0})
  \cup Change({"ban_after_attempts"}, {4})
  \cup Change({"theme_color"}, {Hash(<<1, 16, 1>>), Hash(<<1, 1>>)})

Edited(changes) ==
  {[Delivered EXCEPT ![x[1]] = x[2], ![y[1]] = y[2]] :
     x \in changes, y \in changes}

MCFiles ==
  Edited(NetworkChanges) \cup Edited(FormatChanges)
  \cup {[Delivered EXCEPT ![x[1]] = x[2]] : x \in OtherChanges}

\* The six fields of a form, the first three by their values.
SettingsForm(name, welcome, color, contact) ==
  [k \in Key |-> CASE k = "cafe_name" -> name
                   [] k = "welcome_message" -> welcome
                   [] k = "theme_color" -> color
                   [] OTHER -> contact]

MCFile == SettingsForm("ok", "", Hash(<<11, 4, 5, 3, 0, 9>>), "ok")

\* Two forms that are accepted, one of them with blanks for the contact, and
\* one each that breaks a rule.
MCForms ==
  {SettingsForm("ok", "ok", Hash(<<0, 8, 15>>), " "),
   SettingsForm("other", " ", Hash(<<15, 15, 15, 15, 15, 15>>), "other"),
   SettingsForm(" ", "ok", Hash(<<1, 2, 3>>), "ok"),
   SettingsForm("long", "ok", Hash(<<1, 2, 3>>), "ok"),
   SettingsForm("ok", "ok", Hash(<<1, 16, 3>>), "ok"),
   SettingsForm("ok", "ok", [hash |-> FALSE, digits |-> <<1, 2, 3>>], "ok")}

Plan(name, duration, price) ==
  [name |-> name, duration |-> duration, price |-> price]

MCFirstPlan == Plan("ok", 60, 1000)
MCPlanForms ==
  {MCFirstPlan, Plan("ok", 1440, 0), Plan("", 60, 1000), Plan("ok", 0, 1000),
   Plan("ok", 1441, 1000), Plan("ok", 60, -1)}

Symmetry == Permutations(Handler)
=============================================================================
