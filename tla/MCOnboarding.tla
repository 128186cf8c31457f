--------------------------- MODULE MCOnboarding ---------------------------
EXTENDS Onboarding

\* Without /cancel, which does what /start does except for the menu button, and without an
\* expired button, which does no more than a static message.
MCRequests ==
  { [kind |-> k, value |-> "none"] : k \in {"start", "wizard", "static", "invalid", "custom", "telegram"} }
  \cup { [kind |-> "text", value |-> "ada"], [kind |-> "currency", value |-> "usd"],
         [kind |-> "language", value |-> "ru"], [kind |-> "setlanguage", value |-> "ru"] }
==========================================================================
