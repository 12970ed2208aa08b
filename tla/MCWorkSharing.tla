--------------------------- MODULE MCWorkSharing ---------------------------
EXTENDS WorkSharing

\* Two words that are each other's reverse, and a palindrome.
MCBackwards == <<2, 1, 3>>
=============================================================================
