---------------------------- MODULE MCRestFanout ----------------------------
EXTENDS RestFanout
MCLong == <<<<1, 3, 3, 4>>>>
=============================================================================
