---------------------------- MODULE MC_BlobsEnum ----------------------------
EXTENDS BlobsEnum

\* Three one-byte hashes, hex "1a", "7f" and "c0".
MCHashes == {<<26>>, <<127>>, <<192>>}
\* A prefix byte below the hex digits.
MCBlobPosKey == 1
\* The counter's key: its own prefix byte, then "n".  The index's prefix
\* values are defined outside this repository; with the counter's prefix
\* before BlobPosKey no enumeration reaches it.
MCCounterKey == <<0, 110>>
\* The other order: every enumeration sends the counter's key as a hash.
MCCounterKeyAfter == <<2, 110>>
\* "" and "7f".
MCStarts == {<<>>, <<55, 102>>}
\* "7f" and "\xff".
MCEnds == {<<55, 102>>, <<255>>}
MCLimits == {0, 1, 2}

====
