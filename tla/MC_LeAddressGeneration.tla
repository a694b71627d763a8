----------------------- MODULE MC_LeAddressGeneration -----------------------
EXTENDS LeAddressGeneration

\* A public address whose masked form is itself a candidate NRPA.
MCPublicAddress == <<90, 90, 90, 90, 90, 26>>

\* A valid static address, one with type bits 10, and the two degenerate ones.
MCFixedAddresses ==
    { <<1, 2, 3, 4, 5, 197>>, <<1, 2, 3, 4, 5, 133>>,
      <<0, 0, 0, 0, 0, 192>>, <<255, 255, 255, 255, 255, 255>> }

\* Six-byte draws: degenerate before masking, degenerate only after
\* masking, the public address after masking, and an ordinary draw.
MCRandomAddresses ==
    { <<0, 0, 0, 0, 0, 0>>, <<255, 255, 255, 255, 255, 255>>,
      <<0, 0, 0, 0, 0, 192>>, <<255, 255, 255, 255, 255, 127>>,
      <<90, 90, 90, 90, 90, 90>>, <<1, 2, 3, 4, 5, 198>> }

\* Three-byte draws of the same kinds.
MCRandomPrands ==
    { <<0, 0, 0>>, <<255, 255, 255>>, <<0, 0, 128>>, <<255, 255, 191>>,
      <<1, 2, 3>> }

\* Fix-up draws giving 0x5A, 0xFE and 1.
MCFixupDraws == {89, 253, 254}

\* A stand-in for the first three bytes of aes_128(irk, prand): every
\* output byte depends on the top prand byte.
MCAh(p) == << (p[1] + 2 * p[2] + 3 * p[3]) % 256,
              (5 * p[2] + p[3]) % 256,
              (7 * p[1] + 11 * p[3]) % 256 >>
=============================================================================
