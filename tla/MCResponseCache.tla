-------------------------- MODULE MCResponseCache --------------------------
\* A page that lives for two minutes and that two patterns of the realtime import
\* delete, a page that lives for a day and that the static import deletes, and two
\* requests, of which one may store its page over the other's.
EXTENDS ResponseCache

MCFamily == {"table", "detailed"}
MCCommand == {"importgtfs", "importrealtime"}

=============================================================================
