--------------------------- MODULE MCSha256Stream ---------------------------
EXTENDS Sha256Stream

\* The two bytes padding consists of, so that messages can look like padding.
MCSymbols == {0, Mark}
\* A clean buffer and a dirty one.
MCStale == {0, 5}
=============================================================================
