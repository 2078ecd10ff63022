------------------------------ MODULE MCStartup ------------------------------
(***************************************************************************)
(* Small instances of Startup for TLC.                                     *)
(***************************************************************************)
EXTENDS Startup, TLC

CONSTANTS old, new, drifted, e1, e2

Row(version, checksum) == [version |-> version, checksum |-> checksum]

\* A release, its successor, and a build whose first migration was edited.
MCEmbedded == old :> <<Row(1, 0)>>
           @@ new :> <<Row(1, 0), Row(2, 0)>>
           @@ drifted :> <<Row(1, 1), Row(2, 0)>>

FeatureModule(name, second) == [name |-> name, migrations |-> <<<<"0001_init">>, second>>]

\* The release has two modules that call their migrations alike, its successor one
\* more, which has an id of demo's, and two of the edited build share a name.
Demo == FeatureModule(<<"demo">>, <<"more", "0001_init">>)
Other == FeatureModule(<<"other">>, <<"0002_label">>)

MCModules == old :> <<Demo, Other>>
          @@ new :> <<Demo, Other, FeatureModule(<<"demo", "more">>, <<"0002_label">>)>>
          @@ drifted :> <<Demo, FeatureModule(<<"demo">>, <<"0002_label">>)>>

\* PasswordPolicy::recommended.
Strict == [min_length |-> 12, require |-> {"uppercase", "lowercase", "digit"}]

Plain == [address |-> "ok", auth |-> "ok", database |-> "ok", oauth |-> "off", payments |-> "none",
          secretKey |-> FALSE, webhookSecret |-> FALSE, policy |-> Strict, email |-> Null,
          password |-> [length |-> 12, classes |-> Strict.require]]

Full == [Plain EXCEPT !.oauth = "ok", !.payments = "stripe", !.secretKey = TRUE, !.webhookSecret = TRUE]

Typed(form, address) == [form |-> form, address |-> address]

\* Environments that are right, and some with one thing wrong.
MCLaunch ==
  {"serve"} \X {Full, [Full EXCEPT !.payments = "none"], [Plain EXCEPT !.payments = "fake"],
               [Full EXCEPT !.oauth = "incomplete"], [Full EXCEPT !.secretKey = FALSE],
               [Full EXCEPT !.auth = "malformed"]}
  \cup {"bootstrap-admin"} \X {[Plain EXCEPT !.email = Typed("spelled", e1)],
                              [Plain EXCEPT !.email = Typed("plain", e2)],
                              [Plain EXCEPT !.email = Typed("plain", e1), !.password.length = 11]}
=============================================================================
