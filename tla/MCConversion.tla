---------------------------- MODULE MCConversion ----------------------------
(***************************************************************************)
(* An instance of Conversion: two passes, the first with two outputs; two  *)
(* builds that disagree on the second's version; recordings that already   *)
(* have a channel named like an output, exactly and nearly.                *)
(***************************************************************************)
EXTENDS Conversion

MCNormalized ==
    [name \in {"GPS Latitude", "gps_fix_valid", "GPS Fix Valid", "GPS Position Sigma",
               "GPS Latitude Clean", "gps latitude"} |->
        CASE name \in {"GPS Fix Valid", "gps_fix_valid"} -> "gpsfixvalid"
          [] name \in {"GPS Latitude", "gps latitude"} -> "gpslatitude"
          [] OTHER -> name]

MCRegistry ==
    << [name |-> "gps.quality", outputs |-> <<"GPS Fix Valid", "GPS Position Sigma">>,
        needs |-> {"GPS Latitude"}],
       [name |-> "gps.clean", outputs |-> <<"GPS Latitude Clean">>,
        needs |-> {"GPS Latitude"}] >>

Build(clean) == [pass \in {"gps.quality", "gps.clean"} |-> IF pass = "gps.clean" THEN clean ELSE 1]

MCBuilds == {Build(1), Build(2)}

\* The same name twice; a channel without a sample under an output's name; an
\* output's own name; an output's name in another spelling.
MCVendorFiles ==
    { << Raw("GPS Latitude", "f64", FALSE), Raw("GPS Latitude", "f64", FALSE) >>,
      << Raw("GPS Latitude", "f64", FALSE), Raw("GPS Position Sigma", "f64", TRUE) >>,
      << Raw("GPS Latitude", "f32", FALSE), Raw("GPS Latitude Clean", "f64", FALSE) >>,
      << Raw("gps_fix_valid", "i16", FALSE), Raw("gps latitude", "f64", FALSE) >> }

MCSymmetry == Permutations(Outputs)

=============================================================================
