------------------------------ MODULE MCCodecs ------------------------------
EXTENDS Codecs

\* Recordings that cross zero, both ends of every segment, the clip and the
\* ends of 16 and of 18 bits.
MCBases ==
  {-131072, -32771, -32770, -32640, -4, 32630, 32765, 131060}
    \union {2^e - 132 - 4 : e \in 8 .. 14} \union {132 - 2^e - 4 : e \in 8 .. 14}

\* And every sample by itself.
ASSUME MuLawIsClose ==
  \A pcm \in Int16 : Close(pcm, MuLawToPcm16(LinearToMuLaw(pcm)))
=============================================================================
