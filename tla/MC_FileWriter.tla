---------------------------- MODULE MC_FileWriter ----------------------------
EXTENDS FileWriter

CONSTANTS a, b, m1, m2, u1, u2, u3

MCHashes == {a, b, m1, m2}
MCUploaders == {u1, u2}
\* u3 PutMetas the node u1's upload also puts.
MCUploadersMeta == {u1, u2, u3}
MCMetaOnly == {u3}

\* Both files start with the same chunk a; u1's file has a second chunk b.
MCChunks == [u \in MCUploadersMeta |-> CASE u = u1 -> <<a, b>> [] u = u2 -> <<a>>
                                          [] OTHER -> <<>>]
MCMetaOf == [u \in MCUploadersMeta |-> IF u = u2 THEN m2 ELSE m1]

\* Payload sizes: a single frame of 38 or 39 bytes fills a 45-byte
\* container, so every Put after the first rolls over.
MCSizes == [h \in MCHashes |-> IF h = b THEN 2 ELSE 1]

=============================================================================
