---------------------------- MODULE MC_Clipboard ----------------------------
\* A short text, an image with a text beside it, a password and white space.
EXTENDS Clipboard

MCMimesOf == [c \in Clips |-> CASE c = "note" -> {"text/plain", "STRING"}
                               [] c = "photo" -> {"image/png", "text/plain"}
                               [] c = "secret" -> {"text/plain", Hint}
                               [] c = "void" -> {"UTF8_STRING"}]
MCChunks == [c \in Clips |-> IF c = "photo" THEN 2 ELSE 1]
=============================================================================
