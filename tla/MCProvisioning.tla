--------------------------- MODULE MCProvisioning ---------------------------
EXTENDS Provisioning

\* Both numbers of a signature with and without a leading zero byte and with and
\* without their highest bit.
MCRawSignatures ==
    {<<a, b, c, d>> : a, b, c, d \in {0, 1, 128, 255}} \ 
    ({<<0, 0, c, d>> : c, d \in {0, 1, 128, 255}} \cup
     {<<a, b, 0, 0>> : a, b \in {0, 1, 128, 255}})
=============================================================================
