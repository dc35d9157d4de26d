------------------------- MODULE AcquisitionStartup -------------------------
(***************************************************************************)
(* The composition root of the acquisition process                         *)
(* (acquisition/composition.py): what the environment must hold for        *)
(* build_acquisition_pipeline to return, and what it then returns.         *)
(***************************************************************************)

\* What the environment and the machine look like to the process.
Environment ==
  [driver : {"dicos", "framegrab", "vendor_sdk", "unknown"},
   vendor : {"smiths", "l3", "leidos", "other"},
   parses : BOOLEAN,     \* modality, subject, ROI and the numbers are legal
   key    : {"unset", "hex", "base64"},
   library : BOOLEAN,    \* pydicom, or OpenCV: what the driver works with
   source : BOOLEAN]     \* the hot folder exists, the grabber opens

\* _build_config: a driver type it does not know, or a value that does not
\* parse, is refused.
Configured(env) == env.driver # "unknown" /\ env.parses

\* _build_driver: the vendor is looked at for the vendor path only.
HasDriver(env) ==
  env.driver = "vendor_sdk" => env.vendor \in {"smiths", "l3", "leidos"}

\* _build_ingest_pipeline: the key must be there, and bytes.fromhex must take it.
HasStoreKey(env) == env.key = "hex"

\* connect of the vendor drivers: stubs that raise until the vendor's library is
\* there.
SmithsConnects == FALSE
L3Connects == FALSE

\* DICOSDriver.connect looks for its folder only; the frame grabber also imports
\* OpenCV.
FolderConnects(env) == env.source
GrabberConnects(env) == env.library /\ env.source

Connects(env) ==
  CASE env.driver = "dicos" -> FolderConnects(env)
    [] env.driver = "framegrab" -> GrabberConnects(env)
    [] OTHER -> IF env.vendor = "smiths" THEN SmithsConnects ELSE L3Connects

\* build_acquisition_pipeline returns.
Boots(env) == Configured(env) /\ HasDriver(env) /\ HasStoreKey(env) /\ Connects(env)

\* What SecureImageStore is handed as its encryptor: the key itself.
StoreEncryptor(env) == "bytes"

\* AesGcmEncryptor.from_env, which reads the same variable in the other
\* processes: base64 of 32 bytes.
OpensStore(env) == env.key = "base64"
=============================================================================
