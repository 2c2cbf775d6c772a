----------------------------- MODULE MCTransfer -----------------------------
(* Two modules: "nc" reads names and content types of netCDF; "h4" has two *)
(* lines in Gateway.MimeTypes, of which the second counts; "raw" has a     *)
(* line with nothing after the colon.                                      *)
EXTENDS FetchService

MCTexts == {"", "a.nc", "A.NC", "x#a.nc b", "x#A.NC b", "a.nc; b", "a.nc;",
            "application/x-netcdf", "application/x-hdf", "application/hdf", "nosniff"}
MCLower == [s \in MCTexts |->
    CASE s = "A.NC" -> "a.nc" [] s = "x#A.NC b" -> "x#a.nc b" [] OTHER -> s]
MCWithTail == [s \in MCTexts |-> IF s = "a.nc" THEN "a.nc; b" ELSE s]
MCCut == [s \in MCTexts |->
    CASE s = "x#a.nc b" -> "a.nc" [] s = "x#A.NC b" -> "A.NC" [] s = "a.nc; b" -> "a.nc;" [] OTHER -> s]
MCTypeMatch == <<[matches |-> {"a.nc"}, malformed |-> FALSE, type |-> "nc"]>>
MCMimeTypes == << <<"nc", "application/x-netcdf">>,
                  <<"h4", "application/hdf">>,
                  <<"h4", "application/x-hdf">>,
                  <<"raw", "">> >>
MCModuleOrder == <<"h4", "nc", "raw">>
MCTypes == {"h4", "nc", "raw"}

Line(n, v, h) == [name |-> n, value |-> v, http |-> h]
Disp(form, file) == Line("content-disposition", [form |-> form, file |-> file], FALSE)

MCHeaderLines ==
    {Disp("quoted", "x#A.NC b"), Disp("more", "a.nc"), Disp("inline", ""), Disp("plain", ""),
     Line("content-type", "", FALSE),
     Line("content-type", "application/x-hdf", FALSE),
     Line("x-content-type-options", "nosniff", FALSE),
     Line("date", "", TRUE)}
MCUrls == {"A.NC", "a.nc"}
=============================================================================
