------------------------- MODULE MC_ClientPipeline -------------------------
EXTENDS ClientPipeline

CONSTANTS h1, h2, c1, c2, w1, w2

MCHashes == {h1, h2}
\* Two goroutines using one BlobStore; two workers stand for the 25.
MCCallers == {c1, c2}
MCWorkers == {w1, w2}

====
