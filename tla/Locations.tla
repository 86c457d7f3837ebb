----------------------------- MODULE Locations ------------------------------
(***************************************************************************)
(* The object stores of a profile: pkg/location, which writes, reads and   *)
(* deletes artifacts, over pkg/objectstore, which finds and makes buckets. *)
(* Module ObjectStore has the directories of a bucket in detail.           *)
(***************************************************************************)
EXTENDS Steps

\* The kinds of location, the ways of giving credentials, and whether an
\* S3 endpoint is given.
Stores ==
  {{"s3"}, {"s3", "endpoint"}, {"s3", "otherCredential"}, {"gcs"}, {"azure"}, {"fileStore"}}

---------------------------------------------------------------------------
(* pkg/objectstore *)

s3Config == When("s3", When("badSecret", Fail("err")))

\* Without a secret the environment's credentials are looked for.
gcsConfig ==
  When("gcs", When("badSecret", Fail("err")) \o When("noSecret", Call("default credentials")))

azureConfig ==
  When("azure", When("badSecret", Fail("err"))
                \o When("noSecret", Unless("environment", Fail("err"))))

getConfig == s3Config \o gcsConfig \o azureConfig

getStowLocation == getConfig \o Call("stow.Dial")

awsConfig == Call("AWS configuration")

\* With an endpoint the bucket is asked for its location first.
s3BucketRegion ==
  awsConfig \o Call("session")
  \o When("endpoint", Attempt("noLocation", AnyError, Call("GetBucketLocation"))
                      \o Unless("noLocation", Return))
  \o Call("GetBucketRegion")

\* The region of the profile is used when the bucket's is not found.
s3BucketConfig == When("noSecret", Fail("err")) \o Tolerate(AnyError, Scope(s3BucketRegion))

bucketConfig == When("s3", s3BucketConfig)

CreateBucket == bucketConfig \o getStowLocation \o Make("bucket")

GetBucket == bucketConfig \o getStowLocation \o Get("bucket")

ListBuckets == getStowLocation \o Call("walk the containers")

\* The service refuses to remove a bucket with objects in it.
DeleteBucket == getStowLocation \o Drop("bucket")

\* The S3 provider creates only after "not found", the others after any error.
getOrCreateBucket ==
  When("s3", Attempt("noBucket", {"nf"}, GetBucket))
  \o Unless("s3", Attempt("noBucket", AnyError, GetBucket))
  \o When("noBucket", CreateBucket)

\* Operations: the bucket is opened, made when it is not there; listed; removed.
OpenBucket ==
  Operation({{"s3"}, {"s3", "endpoint"}, {"s3", "noSecret"}, {"gcs"}, {"gcs", "noSecret"},
             {"azure"}, {"azure", "noSecret"}, {"azure", "noSecret", "environment"},
             {"azure", "badSecret"}}, {}, {"bucket"}, getOrCreateBucket)

RemoveBucket == Operation({{"s3"}}, {}, {"bucket"}, ListBuckets \o DeleteBucket)

---------------------------------------------------------------------------
(* pkg/location *)

getProviderType == When("fileStore", Fail("err"))

getAWSSecret ==
  When("s3", When("otherCredential", Fail("err")) \o Call("credentials of the secret"))

getAzureSecret == When("azure", Call("credentials of the secret"))

getOSSecret == getAWSSecret \o getAzureSecret

getBucket == getOSSecret \o GetBucket

readData(artifact) == getBucket \o Get(artifact) \o Call("copy the data")

\* An Azure location needs to know the size before it writes.  One Read is made of
\* up to buffSize bytes; when it returns fewer they are taken for all there is.
\* A file or a string gives all it has, a pipe what happens to be in it.
readerSize(piped, artifact) ==
  Call("read the first part") \o (IF piped THEN Part(artifact) ELSE Do(artifact))

writeData(piped, artifact) ==
  getBucket \o When("azure", readerSize(piped, artifact)) \o Unless("azure", Do(artifact))

\* DeleteAllWithPrefix: it is no error when there is nothing.
deleteData(artifact) == getBucket \o Tolerate({"nf"}, Drop(artifact))

Write(artifact) == getProviderType \o writeData(FALSE, artifact)
WritePipe(artifact) == getProviderType \o writeData(TRUE, artifact)
Read(artifact) == getProviderType \o readData(artifact)
DeleteFrom(artifact) == getProviderType \o deleteData(artifact)

=============================================================================
