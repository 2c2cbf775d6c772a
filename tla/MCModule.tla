------------------------------ MODULE MCModule ------------------------------
(* All combinations of few values for each key of the configuration.       *)
EXTENDS GatewayModule, TLC

CONSTANTS r1, r2, u1, u2

MCUrls == {u1, u2}
MCResources == {r1, r2}
MCMimeModules == {"nc", "h5"}

MCTexts == {"", "http://localhost", "x-netcdf", "netcdf", "x-hdf5", "warsaw", "user", "secret",
            "both", "ntlm", "other"}

MCConfigurations ==
    [whiteList : {{}, {"http://localhost"}},
     mimeTypes : {<<>>, << <<"nc", "x-netcdf">>, <<"h5", "x-hdf5">>, <<"nc", "netcdf">> >>,
                  << <<"nc", "x-netcdf">>, None >>},
     proxyHost : {"", "warsaw"},
     proxyPort : {None, 0, 80, -1},
     proxyUser : {"", "user"}, proxyPassword : {"", "secret"}, proxyUserPW : {"", "both"},
     proxyAuthType : {None, "ntlm", "other"},
     noProxy : {{}, {u1}},
     cacheKeys : {CacheKeys, {"dir", "prefix"}}]

ResourceSymmetry == Permutations(MCResources)
=============================================================================
