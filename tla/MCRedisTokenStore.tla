------------------------ MODULE MCRedisTokenStore ------------------------
EXTENDS RedisTokenStore

MCTimes == 0..3
MCTTLs == {-1, 0, 1, 2}
=============================================================================
